---------------------------- MODULE Spec2Model ----------------------------
(***************************************************************************)
(* A model of lint-gost-tex (src/src/lint_gost_tex): the length-preserving *)
(* masking engine and delimiter matcher of tex.py, the line index of       *)
(* document.py, the document assembler load_document, and the rules built  *)
(* on them.                                                                *)
(*                                                                         *)
(* A text is a sequence of characters, each a one-character string.        *)
(* Python offsets are 0-based and are kept 0-based in every operator that  *)
(* the source gives an index; chars[index] of the source is                *)
(* chars[index + 1] here.  Python's None for an index is -1.               *)
(***************************************************************************)
EXTENDS Integers, Sequences, FiniteSets, TLC

VARIABLES
    text,      \* the text handed to a function of tex.py / a TexFile's text
    op,        \* the operation that ran last ("init" before any)
    arg,       \* its argument (a start index, an offset, a shape), -1 if none
    result,    \* what it returned
    fs,        \* the file system: file name -> [status, text]
    config,    \* the configuration the operation reads
    document   \* the Document built by load_document

vars == <<text, op, arg, result, fs, config, document>>

\* The text functions read no file, configuration or Document.
NoDocument == fs = <<>> /\ config = <<>> /\ document = <<>>

None == 0 - 1

Min(S) == CHOOSE x \in S : \A y \in S : x <= y

MinOf(a, b) == IF a <= b THEN a ELSE b

\* All sequences over alphabet A of length 0..n.
SeqsUpTo(A, n) == UNION {[1..k -> A] : k \in 0..n}

BS == "\\"
NL == "\n"
SP == " "

----------------------------------------------------------------------------
(* tex.py: escape predicate and masking                                    *)

\* The while loop of is_escaped: the number of consecutive backslashes that
\* end at 0-based position pos.
RECURSIVE CountBackslashes(_, _)
CountBackslashes(txt, pos) ==
    IF pos >= 0 /\ txt[pos + 1] = BS
    THEN 1 + CountBackslashes(txt, pos - 1)
    ELSE 0

is_escaped_prev_only(txt, index) == index >= 1 /\ txt[index] = BS

is_escaped(txt, index) == (CountBackslashes(txt, index - 1) % 2) = 1

\* str.startswith(prefix, index)
StartsWith(txt, prefix, index) ==
    /\ index + Len(prefix) <= Len(txt)
    /\ \A k \in 1..Len(prefix) : txt[index + k] = prefix[k]

\* str.find(needle, start): the least index >= start where needle occurs, or -1.
Find(txt, needle, start) ==
    LET hits == {i \in start..(Len(txt) - Len(needle)) : StartsWith(txt, needle, i)}
    IN  IF hits = {} THEN 0 - 1 ELSE Min(hits)

_mask_range_with_newlines(chars, start, end) ==
    [i \in 1..Len(chars) |->
        IF i - 1 >= start /\ i - 1 < MinOf(end, Len(chars))
        THEN SP ELSE chars[i]]

_mask_range_skip_first(chars, start, end) ==
    [i \in 1..Len(chars) |->
        IF i - 1 >= start + 1 /\ i - 1 < MinOf(end, Len(chars)) /\ chars[i] /= NL
        THEN SP ELSE chars[i]]

_mask_range(chars, start, end) ==
    [i \in 1..Len(chars) |->
        IF i - 1 >= start /\ i - 1 < MinOf(end, Len(chars)) /\ chars[i] /= NL
        THEN SP ELSE chars[i]]

RECURSIVE _find_next(_, _, _)
_find_next(txt, needle, start) ==
    LET index == Find(txt, needle, start)
    IN  IF index = 0 - 1 THEN None
        ELSE IF ~is_escaped(txt, index) THEN index
        ELSE _find_next(txt, needle, index + Len(needle))

\* The inner while of strip_comments_keep_length: blank from index up to, not
\* including, the next newline.  Returns <<chars, index>>.
RECURSIVE BlankToEol(_, _)
BlankToEol(chars, index) ==
    IF index < Len(chars) /\ chars[index + 1] /= NL
    THEN BlankToEol([chars EXCEPT ![index + 1] = SP], index + 1)
    ELSE <<chars, index>>

RECURSIVE StripLoop(_, _, _)
StripLoop(txt, chars, index) ==
    IF index >= Len(chars) THEN chars
    ELSE IF chars[index + 1] = "%" /\ ~is_escaped(txt, index)
         THEN LET r == BlankToEol(chars, index)
              IN  StripLoop(txt, r[1], r[2])
         ELSE StripLoop(txt, chars, index + 1)

\* StripLoop with the escape test left out.
RECURSIVE StripLoopEveryPercent(_, _)
StripLoopEveryPercent(chars, index) ==
    IF index >= Len(chars) THEN chars
    ELSE IF chars[index + 1] = "%"
         THEN LET r == BlankToEol(chars, index)
              IN  StripLoopEveryPercent(r[1], r[2])
         ELSE StripLoopEveryPercent(chars, index + 1)

strip_comments_every_percent(txt) == StripLoopEveryPercent(txt, 0)

strip_comments_keep_length(txt) == StripLoop(txt, txt, 0)

\* The while loop of mask_math_keep_length; a break returns chars as they are.
RECURSIVE MathLoop(_, _, _)
MathLoop(txt, chars, index) ==
    IF index >= Len(chars) THEN chars
    ELSE IF chars[index + 1] = "$" /\ ~is_escaped(txt, index)
    THEN IF index + 1 < Len(chars) /\ chars[index + 2] = "$"
         THEN LET end == _find_next(txt, <<"$", "$">>, index + 2)
              IN  IF end = None THEN chars
                  ELSE MathLoop(txt, _mask_range(chars, index, end + 2), end + 2)
         ELSE LET end == _find_next(txt, <<"$">>, index + 1)
              IN  IF end = None THEN chars
                  ELSE MathLoop(txt, _mask_range(chars, index, end + 1), end + 1)
    ELSE IF StartsWith(txt, <<BS, "(">>, index)
    THEN LET end == Find(txt, <<BS, ")">>, index + 2)
         IN  IF end = 0 - 1 THEN chars
             ELSE MathLoop(txt, _mask_range(chars, index, end + 2), end + 2)
    ELSE IF StartsWith(txt, <<BS, "[">>, index)
    THEN LET end == Find(txt, <<BS, "]">>, index + 2)
         IN  IF end = 0 - 1 THEN chars
             ELSE MathLoop(txt, _mask_range(chars, index, end + 2), end + 2)
    ELSE MathLoop(txt, chars, index + 1)

\* MathLoop with each break turned into a step over the opener.
RECURSIVE MathLoopKeepGoing(_, _, _)
MathLoopKeepGoing(txt, chars, index) ==
    IF index >= Len(chars) THEN chars
    ELSE IF chars[index + 1] = "$" /\ ~is_escaped(txt, index)
    THEN IF index + 1 < Len(chars) /\ chars[index + 2] = "$"
         THEN LET end == _find_next(txt, <<"$", "$">>, index + 2)
              IN  IF end = None THEN MathLoopKeepGoing(txt, chars, index + 1)
                  ELSE MathLoopKeepGoing(txt, _mask_range(chars, index, end + 2), end + 2)
         ELSE LET end == _find_next(txt, <<"$">>, index + 1)
              IN  IF end = None THEN MathLoopKeepGoing(txt, chars, index + 1)
                  ELSE MathLoopKeepGoing(txt, _mask_range(chars, index, end + 1), end + 1)
    ELSE IF StartsWith(txt, <<BS, "(">>, index)
    THEN LET end == Find(txt, <<BS, ")">>, index + 2)
         IN  IF end = 0 - 1 THEN MathLoopKeepGoing(txt, chars, index + 1)
             ELSE MathLoopKeepGoing(txt, _mask_range(chars, index, end + 2), end + 2)
    ELSE IF StartsWith(txt, <<BS, "[">>, index)
    THEN LET end == Find(txt, <<BS, "]">>, index + 2)
         IN  IF end = 0 - 1 THEN MathLoopKeepGoing(txt, chars, index + 1)
             ELSE MathLoopKeepGoing(txt, _mask_range(chars, index, end + 2), end + 2)
    ELSE MathLoopKeepGoing(txt, chars, index + 1)

mask_math_keep_going(txt) == MathLoopKeepGoing(txt, txt, 0)

mask_math_keep_length(txt) == MathLoop(txt, txt, 0)

mask_comments_and_math(txt) ==
    LET masked == strip_comments_keep_length(txt)
    IN  mask_math_keep_length(masked)

----------------------------------------------------------------------------
(* SpecMask: the three masking functions applied to every text over        *)
(* MaskAlphabet of length at most MaxMaskLen.                              *)

MaxMaskLen == 5

MaskAlphabet == {BS, "%", "$", "(", ")", "[", "]", NL, "a"}

InitMask ==
    /\ NoDocument
    /\ text \in SeqsUpTo(MaskAlphabet, MaxMaskLen)
    /\ op = "init"
    /\ arg = None
    /\ result = <<>>

StripComments ==
    /\ op = "init"
    /\ op' = "strip_comments_keep_length"
    /\ result' = strip_comments_keep_length(text)
    /\ UNCHANGED <<text, arg, fs, config, document>>

MaskMath ==
    /\ op = "init"
    /\ op' = "mask_math_keep_length"
    /\ result' = mask_math_keep_length(text)
    /\ UNCHANGED <<text, arg, fs, config, document>>

MaskCommentsAndMath ==
    /\ op = "init"
    /\ op' = "mask_comments_and_math"
    /\ result' = mask_comments_and_math(text)
    /\ UNCHANGED <<text, arg, fs, config, document>>

NextMask == StripComments \/ MaskMath \/ MaskCommentsAndMath

SpecMask == InitMask /\ [][NextMask]_vars

MaskOps == {"strip_comments_keep_length", "mask_math_keep_length", "mask_comments_and_math"}

\* C1: each masking function returns a string of the input's length in which
\* every position holds the input's character or a space, and every newline of
\* the input is still a newline at the same offset.
C1_MaskKeepsLengthAndNewlines ==
    op \in MaskOps =>
        /\ Len(result) = Len(text)
        /\ \A i \in 1..Len(text) :
              /\ result[i] \in {text[i], SP}
              /\ (text[i] = NL => result[i] = NL)

\* A math region that spans a newline has been blanked around the newline.
C1_Witness ==
    /\ op = "mask_comments_and_math"
    /\ \E i \in 1..Len(text) : text[i] = NL /\ i > 1 /\ i < Len(text)
                               /\ result[i - 1] = SP /\ text[i - 1] /= SP
                               /\ result[i + 1] = SP /\ text[i + 1] /= SP

\* C2: masking is idempotent: mask(mask(t)) = mask(t).
C2_MaskIdempotent ==
    op = "mask_comments_and_math" => mask_comments_and_math(result) = result

\* A text with a run of two backslashes before ( : the region that starts at
\* the second backslash was blanked and the first backslash was kept.
C2_Witness ==
    /\ op = "mask_comments_and_math"
    /\ \E i \in 1..Len(text) :
          /\ i >= 3
          /\ text[i - 2] = BS /\ text[i - 1] = BS /\ text[i] = "("
          /\ result[i - 2] = BS /\ result[i - 1] = SP /\ result[i] = SP

----------------------------------------------------------------------------
(* tex.py: balanced-delimiter matching                                     *)

\* The while loop of find_matching_brace / find_matching_bracket, which differ
\* only in the pair of delimiters.
RECURSIVE MatchLoop(_, _, _, _, _)
MatchLoop(txt, open, close, index, depth) ==
    IF index >= Len(txt) THEN None
    ELSE LET char == txt[index + 1]
         IN  IF char = open /\ ~is_escaped(txt, index)
             THEN MatchLoop(txt, open, close, index + 1, depth + 1)
             ELSE IF char = close /\ ~is_escaped(txt, index)
             THEN IF depth - 1 = 0 THEN index
                  ELSE MatchLoop(txt, open, close, index + 1, depth - 1)
             ELSE MatchLoop(txt, open, close, index + 1, depth)

find_matching_brace(txt, start) ==
    IF start >= Len(txt) \/ txt[start + 1] /= "{" THEN None
    ELSE MatchLoop(txt, "{", "}", start, 0)

find_matching_bracket(txt, start) ==
    IF start >= Len(txt) \/ txt[start + 1] /= "[" THEN None
    ELSE MatchLoop(txt, "[", "]", start, 0)

----------------------------------------------------------------------------
(* SpecBrace: find_matching_brace and find_matching_bracket called at      *)
(* every start index of every text over BraceAlphabet of length at most    *)
(* MaxBraceLen.                                                            *)

MaxBraceLen == 5

BraceAlphabet == {BS, "{", "}", "[", "]", "a"}

InitBrace ==
    /\ NoDocument
    /\ text \in SeqsUpTo(BraceAlphabet, MaxBraceLen)
    /\ op = "init"
    /\ arg = None
    /\ result = None

FindMatchingBrace ==
    /\ op = "init"
    /\ \E start \in 0..Len(text) :
          /\ arg' = start
          /\ result' = find_matching_brace(text, start)
    /\ op' = "find_matching_brace"
    /\ UNCHANGED <<text, fs, config, document>>

FindMatchingBracket ==
    /\ op = "init"
    /\ \E start \in 0..Len(text) :
          /\ arg' = start
          /\ result' = find_matching_bracket(text, start)
    /\ op' = "find_matching_bracket"
    /\ UNCHANGED <<text, fs, config, document>>

NextBrace == FindMatchingBrace \/ FindMatchingBracket

SpecBrace == InitBrace /\ [][NextBrace]_vars

\* The character at 0-based i is preceded by a run of exactly k backslashes
\* with k odd (stated without the loop of is_escaped).
OddBackslashRun(txt, i) ==
    \E k \in 1..i :
        /\ k % 2 = 1
        /\ \A j \in (i - k)..(i - 1) : txt[j + 1] = BS
        /\ (i - k = 0 \/ txt[i - k] /= BS)

UnescapedAt(txt, i, ch) == txt[i + 1] = ch /\ ~OddBackslashRun(txt, i)

\* The depth after position i, counted over the unescaped delimiters in start..i.
DepthAfter(txt, start, i, open, close) ==
    Cardinality({j \in start..i : UnescapedAt(txt, j, open)})
      - Cardinality({j \in start..i : UnescapedAt(txt, j, close)})

\* The first unescaped closer at which the depth is back to zero, or None.
MatchingCloser(txt, start, open, close) ==
    LET closers == {i \in start..(Len(txt) - 1) :
                       /\ UnescapedAt(txt, i, close)
                       /\ DepthAfter(txt, start, i, open, close) = 0}
    IN  IF closers = {} THEN None ELSE Min(closers)

\* C4: called on an opening delimiter at start, find_matching_brace and
\* find_matching_bracket return the index of the unescaped closer at which the
\* depth over unescaped delimiters of that kind first returns to zero, and
\* None when there is no such closer; escaped delimiters never change the depth.
C4_MatchingDelimiter ==
    /\ (op = "find_matching_brace" /\ arg < Len(text) /\ text[arg + 1] = "{")
          => result = MatchingCloser(text, arg, "{", "}")
    /\ (op = "find_matching_bracket" /\ arg < Len(text) /\ text[arg + 1] = "[")
          => result = MatchingCloser(text, arg, "[", "]")

\* A nested pair with an escaped closer inside: { { \} } matched at the outer }.
C4_Witness ==
    /\ op = "find_matching_brace"
    /\ arg = 0
    /\ text = <<"{", BS, "}", "}">>
    /\ result = 3

----------------------------------------------------------------------------
(* document.py: TexFile, its line-start offset table and line_col/line_text *)

\* text[start:end] for 0 <= start <= end
Slice(txt, start, end) == SubSeq(txt, start + 1, MinOf(end, Len(txt)))

\* str.rstrip("\n")
RECURSIVE RStripNewlines(_)
RStripNewlines(s) ==
    IF Len(s) > 0 /\ s[Len(s)] = NL
    THEN RStripNewlines(SubSeq(s, 1, Len(s) - 1))
    ELSE s

\* The for loop of _build_line_offsets over enumerate(text), from index on.
RECURSIVE BuildOffsetsFrom(_, _, _)
BuildOffsetsFrom(txt, index, offsets) ==
    IF index >= Len(txt) THEN offsets
    ELSE BuildOffsetsFrom(txt, index + 1,
            IF txt[index + 1] = NL THEN Append(offsets, index + 1) ELSE offsets)

RECURSIVE BuildOffsetsAtNewline(_, _, _)
BuildOffsetsAtNewline(txt, index, offsets) ==
    IF index >= Len(txt) THEN offsets
    ELSE BuildOffsetsAtNewline(txt, index + 1,
            IF txt[index + 1] = NL THEN Append(offsets, index) ELSE offsets)

_build_line_offsets_at_newline(txt) == BuildOffsetsAtNewline(txt, 0, <<0>>)

_build_line_offsets(txt) == BuildOffsetsFrom(txt, 0, <<0>>)

\* The while loop of _bisect_line; offsets is a Python list, 0-based.
RECURSIVE BisectLoop(_, _, _, _)
BisectLoop(offsets, offset, low, high) ==
    IF low <= high
    THEN LET mid == (low + high) \div 2
         IN  IF offsets[mid + 1] <= offset
             THEN BisectLoop(offsets, offset, mid + 1, high)
             ELSE BisectLoop(offsets, offset, low, mid - 1)
    ELSE IF high >= 0 THEN high ELSE 0

_bisect_line(offsets, offset) == BisectLoop(offsets, offset, 0, Len(offsets) - 1)

\* TexFile.from_path once the text has been read.
TexFile(path, txt) == [path |-> path, text |-> txt, line_offsets |-> _build_line_offsets(txt)]

\* TexFile.line_col: <<line, col>>, both 1-based.
line_col(file, offset) ==
    IF offset < 0 THEN <<1, 1>>
    ELSE LET line_index == _bisect_line(file.line_offsets, offset)
             line_start == file.line_offsets[line_index + 1]
         IN  <<line_index + 1, offset - line_start + 1>>

\* TexFile.line_text
line_text(file, line) ==
    IF line < 1 THEN <<>>
    ELSE LET start == file.line_offsets[line]
         IN  IF line < Len(file.line_offsets)
             THEN RStripNewlines(Slice(file.text, start, file.line_offsets[line + 1]))
             ELSE RStripNewlines(Slice(file.text, start, Len(file.text)))

\* The position part of the rules' _issue helper: line_col, then line_text of
\* that line as the snippet.
IssuePosition(file, offset) ==
    LET lc == line_col(file, offset)
    IN  [line |-> lc[1], col |-> lc[2], snippet |-> line_text(file, lc[1])]

----------------------------------------------------------------------------
(* SpecLine: a TexFile over every text of LineAlphabet of length at most   *)
(* MaxLineLen, asked for the position of every offset.                     *)

MaxLineLen == 6

LineAlphabet == {NL, "a", "b"}

InitLine ==
    /\ NoDocument
    /\ text \in SeqsUpTo(LineAlphabet, MaxLineLen)
    /\ op = "init"
    /\ arg = None
    /\ result = <<>>

LineCol ==
    /\ op = "init"
    /\ \E offset \in (0 - 1)..Len(text) :
          /\ arg' = offset
          /\ result' = IssuePosition(TexFile("f", text), offset)
    /\ op' = "line_col"
    /\ UNCHANGED <<text, fs, config, document>>

NextLine == LineCol

SpecLine == InitLine /\ [][NextLine]_vars

\* C3 as stated: for every offset 0 <= o < len(text), newline characters
\* included, line_text(line) has a character at index col-1, equal to text[o].
C3_AsStated ==
    (op = "line_col" /\ 0 <= arg /\ arg < Len(text)) =>
        /\ result.col - 1 < Len(result.snippet)
        /\ result.snippet[result.col] = text[arg + 1]

\* C3 amended: that holds for every offset whose character is not a newline;
\* at the offset of a newline, col-1 is the length of line_text(line), which
\* has dropped the newline: there is no character at that index.
C3_LineColRoundTrip ==
    (op = "line_col" /\ 0 <= arg /\ arg < Len(text)) =>
        /\ result.line \in 1..Len(_build_line_offsets(text))
        /\ result.col >= 1
        /\ text[arg + 1] /= NL =>
              /\ result.col - 1 < Len(result.snippet)
              /\ result.snippet[result.col] = text[arg + 1]
        /\ text[arg + 1] = NL => result.col - 1 = Len(result.snippet)

\* An offset on the third line of a text, after an empty second line.
C3_Witness ==
    /\ op = "line_col"
    /\ text = <<"a", NL, NL, "b", "a">>
    /\ arg = 4
    /\ result = [line |-> 3, col |-> 2, snippet |-> <<"b", "a">>]

----------------------------------------------------------------------------
(* document.py: load_document                                              *)
(*                                                                         *)
(* In a root text a whole \include{..} / \input{..} directive is one       *)
(* element of the sequence (one match of INCLUDE_RE); "%" and the newline  *)
(* are characters, so strip_comments_keep_length runs on it as on any      *)
(* text.  A Path is the sequence of its components.  File names are atomic *)
(* strings, so the operations that look inside a name (suffix, glob,       *)
(* symlink target) are given by cases over the names used.                 *)

IncludeLexemes ==
    {"\\include{a}", "\\input{a.tex}", "\\include{l}", "\\input{b}",
     "\\input{main}", "\\include{ }", "\\include{c}"}

\* match.group(1) of INCLUDE_RE
IncludeGroup(lex) ==
    CASE lex = "\\include{a}"   -> "a"
      [] lex = "\\input{a.tex}" -> "a.tex"
      [] lex = "\\include{l}"   -> "l"
      [] lex = "\\input{b}"     -> "b"
      [] lex = "\\input{main}"  -> "main"
      [] lex = "\\include{c}"   -> "c"
      [] lex = "\\include{ }"   -> " "

\* str.strip() of a directive's argument
StripName(raw) == IF raw = " " THEN "" ELSE raw

\* Path.suffix == "" for a single-component path
HasNoSuffix(name) == name \in {"a", "l", "b", "c", "main"}

\* Path.with_suffix(".tex") on the last component
WithTexSuffix(name) ==
    CASE name = "a" -> "a.tex"
      [] name = "l" -> "l.tex"
      [] name = "b" -> "b.tex"
      [] name = "c" -> "c.tex"
      [] name = "main" -> "main.tex"
      [] OTHER -> name

PathName(path) == path[Len(path)]

PathParent(path) == SubSeq(path, 1, Len(path) - 1)

\* l.tex is a symbolic link to a.tex in the same directory.
LinkTarget(name) == IF name = "l.tex" THEN "a.tex" ELSE name

\* Path.resolve(): absolute, symbolic links followed.
Resolve(path) == <<"/">> \o PathParent(path) \o <<LinkTarget(PathName(path))>>

\* The file a path leads to, as the key of fs.
FileOf(path) == PathName(Resolve(path))

\* Path.exists()
Exists(path) == fs[FileOf(path)].status /= "missing"

\* Path.read_text succeeds (it raises for a missing or unreadable file).
Readable(path) == fs[FileOf(path)].status = "ok"

ReadText(path) == fs[FileOf(path)].text

\* PurePath.match(pattern) for a one-component pattern: a glob on the name.
PathMatch(path, pattern) ==
    IF pattern = "l*" THEN PathName(path) \in {"l.tex"}
    ELSE PathName(path) = pattern

\* DocumentConfig.is_excluded
is_excluded(cfg, path) ==
    \E k \in 1..Len(cfg.exclude) :
        LET pattern == cfg.exclude[k]
        IN  \/ PathName(<<pattern>>) = pattern /\ PathName(path) = pattern
            \/ PathMatch(path, pattern)

\* The for loop of _collect_includes over INCLUDE_RE.finditer(masked).
RECURSIVE CollectLoop(_, _, _, _)
CollectLoop(masked, base, index, results) ==
    IF index >= Len(masked) THEN results
    ELSE LET lex == masked[index + 1]
         IN  IF lex \notin IncludeLexemes
             THEN CollectLoop(masked, base, index + 1, results)
             ELSE LET raw == StripName(IncludeGroup(lex))
                      candidate == IF HasNoSuffix(raw) THEN <<WithTexSuffix(raw)>> ELSE <<raw>>
                  IN  IF raw = ""
                      THEN CollectLoop(masked, base, index + 1, results)
                      ELSE CollectLoop(masked, base, index + 1, Append(results, base \o candidate))

\* _collect_includes: [raised, value]; raised when root.read_text raises.
CollectOf(root) ==
    IF ~Exists(root) THEN [raised |-> FALSE, value |-> <<>>]
    ELSE IF ~Readable(root) THEN [raised |-> TRUE, value |-> <<>>]
    ELSE [raised |-> FALSE,
          value |-> CollectLoop(strip_comments_keep_length(ReadText(root)),
                                PathParent(root), 0, <<>>)]

\* A variant that follows the includes of the included files as well.
RECURSIVE CollectDeep(_, _)
CollectDeep(paths, depth) ==
    IF depth = 0 \/ paths = <<>> THEN <<>>
    ELSE LET head == paths[1]
             own  == IF Exists(head) /\ Readable(head)
                     THEN CollectLoop(strip_comments_keep_length(ReadText(head)),
                                      PathParent(head), 0, <<>>)
                     ELSE <<>>
         IN  <<head>> \o CollectDeep(own, depth - 1) \o CollectDeep(Tail(paths), depth)

_collect_includes_recursive(root) ==
    LET top == CollectOf(root)
    IN  [raised |-> top.raised, value |-> CollectDeep(top.value, 2)]

_collect_includes(root) == CollectOf(root)

\* The for loop of _unique_paths.
RECURSIVE UniqueLoop(_, _, _, _)
UniqueLoop(paths, i, seen, res) ==
    IF i > Len(paths) THEN res
    ELSE LET resolved == Resolve(paths[i])
         IN  IF resolved \in seen
             THEN UniqueLoop(paths, i + 1, seen, res)
             ELSE UniqueLoop(paths, i + 1, seen \cup {resolved}, Append(res, paths[i]))

RECURSIVE UniqueByPathLoop(_, _, _, _)
UniqueByPathLoop(paths, i, seen, res) ==
    IF i > Len(paths) THEN res
    ELSE IF paths[i] \in seen
         THEN UniqueByPathLoop(paths, i + 1, seen, res)
         ELSE UniqueByPathLoop(paths, i + 1, seen \cup {paths[i]}, Append(res, paths[i]))

_unique_paths_unresolved(paths) == UniqueByPathLoop(paths, 1, {}, <<>>)

_unique_paths(paths) == UniqueLoop(paths, 1, {}, <<>>)

\* The for loop of load_document over unique_paths: [raised, value]; raised
\* when TexFile.from_path's read_text raises.
RECURSIVE LoadLoop(_, _, _, _)
LoadLoop(cfg, unique, i, files) ==
    IF i > Len(unique) THEN [raised |-> FALSE, value |-> files]
    ELSE LET path == unique[i]
         IN  IF is_excluded(cfg, path) THEN LoadLoop(cfg, unique, i + 1, files)
             ELSE IF ~Exists(path) THEN LoadLoop(cfg, unique, i + 1, files)
             ELSE IF ~Readable(path) THEN [raised |-> TRUE, value |-> <<>>]
             ELSE LoadLoop(cfg, unique, i + 1, Append(files, TexFile(path, ReadText(path))))

\* load_document: [raised, value], value the Document when nothing was raised.
load_document(cfg, base_dir) ==
    LET root == cfg.root
        includes == _collect_includes(root)
    IN  IF includes.raised THEN [raised |-> TRUE, value |-> <<>>]
        ELSE LET paths == <<root>> \o includes.value
                 unique_paths == _unique_paths(paths)
                 loaded == LoadLoop(cfg, unique_paths, 1, <<>>)
             IN  IF loaded.raised THEN [raised |-> TRUE, value |-> <<>>]
                 ELSE [raised |-> FALSE,
                       value |-> [files |-> loaded.value, base_dir |-> base_dir]]

----------------------------------------------------------------------------
(* SpecDoc: load_document on a directory doc/ holding main.tex (every text *)
(* over RootAlphabet of length at most MaxRootLen), a.tex, its symbolic    *)
(* link l.tex, b.tex (which includes c) and c.tex; each of main.tex, a.tex *)
(* and b.tex is present, missing or unreadable (a file that is not         *)
(* readable has no text).                                                  *)

MaxRootLen == 3

RootAlphabet == {"%", NL, "\\include{a}", "\\input{a.tex}", "\\include{l}",
                 "\\input{b}", "\\input{main}", "\\include{ }"}

FileNames == {"main.tex", "a.tex", "b.tex", "c.tex"}

RootPath == <<"doc", "main.tex">>

FileStatuses ==
    {st \in [FileNames -> {"ok", "missing", "unreadable"}] : st["c.tex"] = "ok"}

ExcludeChoices == {<<>>, <<"a.tex">>, <<"l*">>}

IncludedText(name) == IF name = "b.tex" THEN <<"\\include{c}">> ELSE <<>>

InitDoc ==
    /\ text = <<>>
    /\ op = "init"
    /\ arg = None
    /\ result = <<>>
    /\ \E st \in FileStatuses, root_text \in SeqsUpTo(RootAlphabet, MaxRootLen) :
          fs = [n \in FileNames |->
                  [status |-> st[n],
                   text |-> IF st[n] /= "ok" THEN <<>>
                            ELSE IF n = "main.tex" THEN root_text
                            ELSE IncludedText(n)]]
    /\ \E ex \in ExcludeChoices : config = [root |-> RootPath, exclude |-> ex]
    /\ document = <<>>

LoadDocument ==
    /\ op = "init"
    /\ op' = "load_document"
    /\ LET r == load_document(config, <<"doc">>)
       IN  /\ result' = [raised |-> r.raised]
           /\ document' = r.value
    /\ UNCHANGED <<text, arg, fs, config>>

NextDoc == LoadDocument

SpecDoc == InitDoc /\ [][NextDoc]_vars

\* The paths of Document.files
DocPaths == [i \in 1..Len(document.files) |-> document.files[i].path]

Returned == op = "load_document" /\ ~result.raised

\* 1-based position i of the root text lies in a comment: an unescaped % at or
\* before it with no newline in between.
InComment(txt, i) ==
    \E j \in 1..i : /\ txt[j] = "%"
                    /\ ~OddBackslashRun(txt, j - 1)
                    /\ \A k \in j..i : txt[k] /= NL

\* The positions of the root text's directives outside comments whose
\* argument is not blank, in increasing order.
RECURSIVE SortedSeq(_)
SortedSeq(S) == IF S = {} THEN <<>> ELSE <<Min(S)>> \o SortedSeq(S \ {Min(S)})

DirectivePath(lex) ==
    LET raw == StripName(IncludeGroup(lex))
    IN  PathParent(RootPath) \o <<IF HasNoSuffix(raw) THEN WithTexSuffix(raw) ELSE raw>>

\* The candidate order [root, includes in textual order].
Candidates ==
    LET txt == fs["main.tex"].text
        pos == SortedSeq({i \in 1..Len(txt) :
                            /\ txt[i] \in IncludeLexemes
                            /\ ~InComment(txt, i)
                            /\ StripName(IncludeGroup(txt[i])) /= ""})
    IN  <<RootPath>> \o [k \in 1..Len(pos) |-> DirectivePath(txt[pos[k]])]

FirstOccurrence(cands, k) ==
    \A j \in 1..(k - 1) : Resolve(cands[j]) /= Resolve(cands[k])

\* C5: no two entries of Document.files resolve to the same absolute path;
\* of several candidates that resolve to one file the entry kept is the first
\* in the candidate order [root, includes in textual order], and exactly one
\* entry is there whenever that first candidate exists and is not excluded.
C5_UniqueByResolvedPath ==
    Returned =>
        /\ \A i, j \in 1..Len(DocPaths) :
              i /= j => Resolve(DocPaths[i]) /= Resolve(DocPaths[j])
        /\ \A i \in 1..Len(DocPaths) :
              \E k \in 1..Len(Candidates) :
                  Candidates[k] = DocPaths[i] /\ FirstOccurrence(Candidates, k)
        /\ \A k \in 1..Len(Candidates) :
              (/\ FirstOccurrence(Candidates, k)
               /\ Exists(Candidates[k])
               /\ ~is_excluded(config, Candidates[k]))
              => Cardinality({i \in 1..Len(DocPaths) :
                                Resolve(DocPaths[i]) = Resolve(Candidates[k])}) = 1

\* \include{l}, \input{a.tex} and \include{a} all lead to a.tex: the entry kept
\* is l.tex, the first.
C5_Witness ==
    /\ Returned
    /\ fs["main.tex"].text = <<"\\include{l}", "\\input{a.tex}", "\\include{a}">>
    /\ DocPaths = <<RootPath, <<"doc", "l.tex">> >>

\* candidate k is loaded: first of its resolved path, not excluded, on disk
Kept(cands, k) ==
    /\ FirstOccurrence(cands, k)
    /\ ~is_excluded(config, cands[k])
    /\ Exists(cands[k])

\* C6: Document.files is the root file followed by the files named by the
\* root file's own \include/\input directives outside comments, in textual
\* order (duplicates, excluded and missing files left out); a file referenced
\* only from an included file never appears.
C6_RootThenDirectIncludes ==
    Returned =>
        LET kept == SortedSeq({k \in 1..Len(Candidates) : Kept(Candidates, k)})
        IN  /\ DocPaths = [i \in 1..Len(kept) |-> Candidates[kept[i]]]
            /\ \A i \in 1..Len(DocPaths) : PathName(DocPaths[i]) /= "c.tex"
            /\ Kept(Candidates, 1) => DocPaths[1] = RootPath

\* The root includes b, which includes c, after a commented-out \include{a}:
\* the Document is main.tex, b.tex.
C6_Witness ==
    /\ Returned
    /\ fs["main.tex"].text = <<"%", "\\include{a}", NL>> \o <<"\\input{b}">>
       \/ fs["main.tex"].text = <<"\\input{b}", "%", "\\include{a}">>
    /\ fs["b.tex"].status = "ok"
    /\ DocPaths = <<RootPath, <<"doc", "b.tex">> >>

\* C7: when the root file does not exist or cannot be read, load_document
\* raises and returns no Document.
C7_RootFailureIsRaised ==
    (op = "load_document" /\ fs["main.tex"].status /= "ok") => result.raised

\* C8: an included file that is missing, unreadable or excluded is left out
\* without an error reaching the caller, and every other candidate is still
\* loaded in its order.
C8_BadIncludeIsSkipped ==
    (op = "load_document" /\ fs["main.tex"].status = "ok") =>
        /\ ~result.raised
        /\ LET kept == SortedSeq({k \in 1..Len(Candidates) :
                                    Kept(Candidates, k) /\ Readable(Candidates[k])})
           IN  DocPaths = [i \in 1..Len(kept) |-> Candidates[kept[i]]]

----------------------------------------------------------------------------
(* rules/illustrations.py: IllustrationOrderRule                           *)
(*                                                                         *)
(* In a file's text a whole \begin{figure}, \end{figure}, \label{a},       *)
(* \ref{a} or \pageref{a} is one element of the sequence (one match of     *)
(* ENV_TOKEN_RE, of LABEL_RE, or one command span with its argument), and  *)
(* its offset is its 0-based index.                                        *)

RECURSIVE ConcatAll(_)
ConcatAll(seqs) == IF seqs = <<>> THEN <<>> ELSE seqs[1] \o ConcatAll(Tail(seqs))

EnvLexemes == {"\\begin{figure}", "\\end{figure}", "\\begin{center}", "\\end{center}",
               "\\begin{itemize}", "\\end{itemize}", "\\begin{enumerate}", "\\end{enumerate}",
               "\\begin{itemize*}", "\\end{itemize*}"}

\* match.group(1), match.group(2).strip() of ENV_TOKEN_RE
EnvKind(lex) ==
    IF lex \in {"\\begin{figure}", "\\begin{center}", "\\begin{itemize}",
                "\\begin{enumerate}", "\\begin{itemize*}"}
    THEN "begin" ELSE "end"

EnvName(lex) ==
    IF lex \in {"\\begin{figure}", "\\end{figure}"} THEN "figure"
    ELSE IF lex \in {"\\begin{itemize}", "\\end{itemize}"} THEN "itemize"
    ELSE IF lex \in {"\\begin{enumerate}", "\\end{enumerate}"} THEN "enumerate"
    ELSE IF lex \in {"\\begin{itemize*}", "\\end{itemize*}"} THEN "itemize*"
    ELSE "center"

\* tex.py iter_env_tokens: <<kind, env, offset>> of every match from index on.
RECURSIVE EnvTokensFrom(_, _)
EnvTokensFrom(txt, index) ==
    IF index >= Len(txt) THEN <<>>
    ELSE IF txt[index + 1] \in EnvLexemes
         THEN << <<EnvKind(txt[index + 1]), EnvName(txt[index + 1]), index>> >>
                 \o EnvTokensFrom(txt, index + 1)
         ELSE EnvTokensFrom(txt, index + 1)

iter_env_tokens(txt) == EnvTokensFrom(txt, 0)

\* list.pop(index), 0-based: the list without that element.
ListPop(list, index) == SubSeq(list, 1, index) \o SubSeq(list, index + 2, Len(list))

\* The inner for loop of _collect_env_blocks: the 0-based index of the topmost
\* frame named env, searching from index down; -1 if there is none.
RECURSIVE TopmostFrame(_, _, _)
TopmostFrame(stack, env, index) ==
    IF index < 0 THEN 0 - 1
    ELSE IF stack[index + 1][1] = env THEN index
    ELSE TopmostFrame(stack, env, index - 1)

\* The for loop of _collect_env_blocks over the tokens from the k-th on.
RECURSIVE EnvBlocksLoop(_, _, _, _, _)
EnvBlocksLoop(tokens, envs, k, stack, blocks) ==
    IF k > Len(tokens) THEN blocks
    ELSE LET kind == tokens[k][1]
             env == tokens[k][2]
             offset == tokens[k][3]
         IN  IF env \notin envs THEN EnvBlocksLoop(tokens, envs, k + 1, stack, blocks)
             ELSE IF kind = "begin"
             THEN EnvBlocksLoop(tokens, envs, k + 1, Append(stack, <<env, offset>>), blocks)
             ELSE LET index == TopmostFrame(stack, env, Len(stack) - 1)
                  IN  IF index = 0 - 1
                      THEN EnvBlocksLoop(tokens, envs, k + 1, stack, blocks)
                      ELSE EnvBlocksLoop(tokens, envs, k + 1, ListPop(stack, index),
                                         Append(blocks, <<env, stack[index + 1][2], offset>>))

\* _collect_env_blocks: <<env, start, end>> in the order the blocks are closed.
_collect_env_blocks(txt, envs) == EnvBlocksLoop(iter_env_tokens(txt), envs, 1, <<>>, <<>>)

LabelLexemes == {"\\label{a}"}

\* match.group(1).strip() of LABEL_RE
LabelGroup(lex) == IF lex = "\\label{a}" THEN "a" ELSE ""

RECURSIVE LabelsFrom(_, _)
LabelsFrom(txt, index) ==
    IF index >= Len(txt) THEN <<>>
    ELSE IF txt[index + 1] \in LabelLexemes /\ LabelGroup(txt[index + 1]) /= ""
         THEN <<LabelGroup(txt[index + 1])>> \o LabelsFrom(txt, index + 1)
         ELSE LabelsFrom(txt, index + 1)

_collect_labels(txt) == LabelsFrom(txt, 0)

\* The command and the labels (argument.split(","), stripped, non-empty) of a
\* reference element.
RefCommand(lex) ==
    CASE lex = "\\ref{a}" -> "ref"
      [] lex = "\\pageref{a}" -> "pageref"
      [] OTHER -> ""

RefLabels(lex) == IF lex \in {"\\ref{a}", "\\pageref{a}"} THEN <<"a">> ELSE <<>>

\* tex.py iter_command_spans as _collect_ref_positions reads it: the start and
\* the labels of every span of the command, from index on.
RECURSIVE RefSpansFrom(_, _, _)
RefSpansFrom(masked, command, index) ==
    IF index >= Len(masked) THEN <<>>
    ELSE IF RefCommand(masked[index + 1]) = command
         THEN <<[start |-> index, labels |-> RefLabels(masked[index + 1])]>>
                 \o RefSpansFrom(masked, command, index + 1)
         ELSE RefSpansFrom(masked, command, index + 1)

\* Python's tuple comparison of two (file_index, offset) pairs.
PosLess(p, q) == p[1] < q[1] \/ (p[1] = q[1] /\ p[2] < q[2])

\* One visit of the innermost loop of _collect_ref_positions.
RecordRef(positions, label, pos) ==
    IF label \notin DOMAIN positions THEN positions @@ (label :> pos)
    ELSE IF PosLess(pos, positions[label]) THEN [positions EXCEPT ![label] = pos]
    ELSE positions

RecordRefFirstSeen(positions, label, pos) ==
    IF label \notin DOMAIN positions THEN positions @@ (label :> pos)
    ELSE positions

\* The three nested loops of _collect_ref_positions, flattened into the
\* sequence of <<label, pos>> visits in the order the code makes them.
RefVisits(files, commands) ==
    ConcatAll([f \in 1..Len(files) |->
        LET masked == mask_comments_and_math(files[f].text)
        IN  ConcatAll([c \in 1..Len(commands) |->
                LET spans == RefSpansFrom(masked, commands[c], 0)
                IN  ConcatAll([n \in 1..Len(spans) |->
                        [m \in 1..Len(spans[n].labels) |->
                            <<spans[n].labels[m], <<f - 1, spans[n].start>> >>]])])])

RECURSIVE FoldRefs(_, _, _)
FoldRefs(visits, k, positions) ==
    IF k > Len(visits) THEN positions
    ELSE FoldRefs(visits, k + 1, RecordRef(positions, visits[k][1], visits[k][2]))

RECURSIVE FoldRefsFirstSeen(_, _, _)
FoldRefsFirstSeen(visits, k, positions) ==
    IF k > Len(visits) THEN positions
    ELSE FoldRefsFirstSeen(visits, k + 1,
                           RecordRefFirstSeen(positions, visits[k][1], visits[k][2]))

_collect_ref_positions_first_seen(files, commands) ==
    FoldRefsFirstSeen(RefVisits(files, commands), 1, <<>>)

\* _collect_ref_positions: the dict label -> (file_index, offset).
_collect_ref_positions(files, commands) == FoldRefs(RefVisits(files, commands), 1, <<>>)

\* illustrations.py _issue
IllIssue(tex_file, offset, rule_id, label) ==
    LET at == IssuePosition(tex_file, offset)
    IN  [rule_id |-> rule_id, message |-> label, path |-> tex_file.path,
         line |-> at.line, col |-> at.col, snippet |-> at.snippet]

\* IllustrationOrderRule.check: the list of issues.
IllustrationOrderRule_check(files, rule) ==
    LET ref_positions == _collect_ref_positions(files, rule.ref_commands)
    IN  ConcatAll([f \in 1..Len(files) |->
            LET tex_file == files[f]
                file_index == f - 1
                masked == mask_comments_and_math(tex_file.text)
                blocks == _collect_env_blocks(masked, rule.envs)
            IN  ConcatAll([b \in 1..Len(blocks) |->
                    LET start_offset == blocks[b][2]
                        end_offset == blocks[b][3]
                        labels == _collect_labels(Slice(masked, start_offset, end_offset))
                    IN  ConcatAll([n \in 1..Len(labels) |->
                            LET label == labels[n]
                            IN  IF label \notin DOMAIN ref_positions
                                THEN <<IllIssue(tex_file, start_offset, "ILL002", label)>>
                                ELSE IF ~PosLess(ref_positions[label], <<file_index, start_offset>>)
                                THEN <<IllIssue(tex_file, start_offset, "ILL001", label)>>
                                ELSE <<>>])])])

----------------------------------------------------------------------------
(* SpecIll: IllustrationOrderRule.check on every Document of two files     *)
(* whose texts together are a sequence over IllAlphabet of length at most  *)
(* MaxIllLen, cut into the two files at any point.                         *)

MaxIllLen == 5

IllAlphabet == {"\\begin{figure}", "\\end{figure}", "\\label{a}", "\\ref{a}", "\\pageref{a}"}

IllRule == [envs |-> {"figure"}, ref_commands |-> <<"ref", "pageref">>]

InitIll ==
    /\ text = <<>>
    /\ op = "init"
    /\ arg = None
    /\ result = <<>>
    /\ fs = <<>>
    /\ config = [illustrations |-> IllRule]
    /\ \E all \in SeqsUpTo(IllAlphabet, MaxIllLen) :
          \E cut \in 0..Len(all) :
              document = [files |-> <<TexFile(<<"doc", "main.tex">>, SubSeq(all, 1, cut)),
                                      TexFile(<<"doc", "a.tex">>, SubSeq(all, cut + 1, Len(all)))>>,
                          base_dir |-> <<"doc">>]

IllustrationCheck ==
    /\ op = "init"
    /\ op' = "IllustrationOrderRule.check"
    /\ result' = IllustrationOrderRule_check(document.files, config.illustrations)
    /\ UNCHANGED <<text, arg, fs, config, document>>

NextIll == IllustrationCheck

SpecIll == InitIll /\ [][NextIll]_vars

\* The (file index, offset) positions of the reference commands that name
\* label, in the masked texts of the Document's files.
RefsTo(label) ==
    LET all == UNION {{<<f - 1, i - 1>> : i \in 1..Len(document.files[f].text)} :
                          f \in 1..Len(document.files)}
    IN  {p \in all :
            LET lex == mask_comments_and_math(document.files[p[1] + 1].text)[p[2] + 1]
            IN  /\ RefCommand(lex) \in {"ref", "pageref"}
                /\ \E m \in 1..Len(RefLabels(lex)) : RefLabels(lex)[m] = label}

\* p is the smallest position of S in the order: file index first, then offset.
IsEarliest(p, S) == p \in S /\ \A q \in S : q = p \/ PosLess(p, q)

\* What the rule owes for a label inside the block of file f (0-based) that
\* starts at offset start: "ILL002", "ILL001" or "none".
Verdict(label, f, start) ==
    IF RefsTo(label) = {} THEN "ILL002"
    ELSE LET r == CHOOSE p \in RefsTo(label) : IsEarliest(p, RefsTo(label))
         IN  IF PosLess(r, <<f, start>>) THEN "none" ELSE "ILL001"

\* The number of issues with this rule id and label anchored at the element
\* at offset start of file f (line 1, column start + 1: the texts have one line).
IssuesAt(rule_id, label, f, start) ==
    Cardinality({k \in 1..Len(result) :
        /\ result[k].rule_id = rule_id
        /\ result[k].message = label
        /\ result[k].path = document.files[f + 1].path
        /\ result[k].line = 1
        /\ result[k].col = start + 1})

\* The number of \label elements naming label between start and end.
LabelCount(txt, label, start, end) ==
    Cardinality({i \in start..(end - 1) : txt[i + 1] \in LabelLexemes /\ LabelGroup(txt[i + 1]) = label})

\* C9: every label found inside a tracked block gets exactly one ILL002 issue
\* at the block's start when no reference in the Document names it; otherwise,
\* with r the smallest (file index, offset) of its references and b the
\* block's (file index, start), no issue when r < b and exactly one ILL001
\* issue when r >= b; and nothing else is reported.
C9_IllustrationOrder ==
    op = "IllustrationOrderRule.check" =>
        /\ \A f \in 0..(Len(document.files) - 1) :
              LET txt == mask_comments_and_math(document.files[f + 1].text)
                  blocks == _collect_env_blocks(txt, {"figure"})
              IN  \A b \in 1..Len(blocks) :
                      LET n == LabelCount(txt, "a", blocks[b][2], blocks[b][3])
                          v == Verdict("a", f, blocks[b][2])
                      IN  /\ IssuesAt("ILL002", "a", f, blocks[b][2]) = IF v = "ILL002" THEN n ELSE 0
                          /\ IssuesAt("ILL001", "a", f, blocks[b][2]) = IF v = "ILL001" THEN n ELSE 0
        /\ \A k \in 1..Len(result) :
              \E f \in 0..(Len(document.files) - 1) :
                  LET blocks == _collect_env_blocks(
                                    mask_comments_and_math(document.files[f + 1].text), {"figure"})
                  IN  \E b \in 1..Len(blocks) :
                          /\ result[k].path = document.files[f + 1].path
                          /\ result[k].col = blocks[b][2] + 1
                          /\ result[k].rule_id \in {"ILL001", "ILL002"}

\* The first file holds \pageref{a} and then a labelled figure, which a later
\* \ref{a} in the second file names too: the earliest reference precedes the
\* block and nothing is reported.
C9_Witness ==
    /\ op = "IllustrationOrderRule.check"
    /\ document.files[1].text = <<"\\pageref{a}", "\\begin{figure}", "\\label{a}", "\\end{figure}">>
    /\ document.files[2].text = <<"\\ref{a}">>
    /\ result = <<>>

----------------------------------------------------------------------------
(* tex.py: command spans and option splitting; rules/images.py             *)
(*                                                                         *)
(* In these texts a command name (\includegraphics), a key (width), a      *)
(* length (W, V) and a file name (f) are one element each; the brackets,   *)
(* the braces, "=", "," and the space are characters.                      *)

\* str.isspace() of one element
IsSpace(ch) == ch \in {SP, NL}

\* The elements that begin with a word character: \b does not hold between a
\* command name and one of these.
WordLexemes == {"width", "W", "V", "f", "a", "A", "1"}

\* The text \command as one element.
CommandLexeme(command) ==
    CASE command = "includegraphics" -> "\\includegraphics"
      [] command = "ref" -> "\\ref"
      [] command = "href" -> "\\href"
      [] OTHER -> ""

RECURSIVE _skip_whitespace(_, _)
_skip_whitespace(txt, index) ==
    IF index < Len(txt) /\ IsSpace(txt[index + 1])
    THEN _skip_whitespace(txt, index + 1)
    ELSE index

\* _parse_optional: [optional, index], optional = [some |-> FALSE] for None.
_parse_optional(txt, index0) ==
    LET index == _skip_whitespace(txt, index0)
    IN  IF index < Len(txt) /\ txt[index + 1] = "["
        THEN LET end == find_matching_bracket(txt, index)
             IN  IF end = None THEN [optional |-> [some |-> FALSE], index |-> index]
                 ELSE [optional |-> [some |-> TRUE, value |-> Slice(txt, index + 1, end)],
                       index |-> end + 1]
        ELSE [optional |-> [some |-> FALSE], index |-> index]

\* _parse_braced: [argument, arg_start, arg_end]
_parse_braced(txt, index0) ==
    LET index == _skip_whitespace(txt, index0)
    IN  IF index < Len(txt) /\ txt[index + 1] = "{"
        THEN LET end == find_matching_brace(txt, index)
             IN  IF end = None
                 THEN [argument |-> [some |-> FALSE], arg_start |-> None, arg_end |-> None]
                 ELSE [argument |-> [some |-> TRUE, value |-> Slice(txt, index + 1, end)],
                       arg_start |-> index + 1, arg_end |-> end]
        ELSE [argument |-> [some |-> FALSE], arg_start |-> None, arg_end |-> None]

\* The pattern \\command\b matches at 0-based index.
CommandMatchAt(txt, command, index) ==
    /\ txt[index + 1] = CommandLexeme(command)
    /\ (index + 1 >= Len(txt) \/ txt[index + 2] \notin WordLexemes)

\* The body of the for loop of iter_command_spans for the match at index.
CommandSpan(txt, command, start) ==
    LET opt == _parse_optional(txt, start + 1)
        req == _parse_braced(txt, opt.index)
    IN  [name |-> command, start |-> start,
         end |-> IF req.arg_end /= None THEN req.arg_end + 1 ELSE opt.index,
         optional |-> opt.optional, argument |-> req.argument,
         argument_start |-> req.arg_start, argument_end |-> req.arg_end]

RECURSIVE CommandSpansFrom(_, _, _)
CommandSpansFrom(txt, command, index) ==
    IF index >= Len(txt) THEN <<>>
    ELSE IF CommandMatchAt(txt, command, index)
         THEN <<CommandSpan(txt, command, index)>> \o CommandSpansFrom(txt, command, index + 1)
         ELSE CommandSpansFrom(txt, command, index + 1)

iter_command_spans(txt, command) == CommandSpansFrom(txt, command, 0)

\* str.strip()
RECURSIVE LStrip(_)
LStrip(s) == IF Len(s) > 0 /\ IsSpace(s[1]) THEN LStrip(Tail(s)) ELSE s

RECURSIVE RStrip(_)
RStrip(s) == IF Len(s) > 0 /\ IsSpace(s[Len(s)]) THEN RStrip(SubSeq(s, 1, Len(s) - 1)) ELSE s

Strip(s) == RStrip(LStrip(s))

\* The for loop of split_options from the k-th character on.
RECURSIVE SplitLoop(_, _, _, _, _)
SplitLoop(options, k, parts, current, depth) ==
    IF k > Len(options)
    THEN LET tail == Strip(current)
         IN  IF tail /= <<>> THEN Append(parts, tail) ELSE parts
    ELSE LET char == options[k]
         IN  IF char = "{" /\ depth >= 0
             THEN SplitLoop(options, k + 1, parts, Append(current, char), depth + 1)
             ELSE IF char = "}" /\ depth > 0
             THEN SplitLoop(options, k + 1, parts, Append(current, char), depth - 1)
             ELSE IF char = "," /\ depth = 0
             THEN LET part == Strip(current)
                  IN  SplitLoop(options, k + 1,
                                IF part /= <<>> THEN Append(parts, part) ELSE parts,
                                <<>>, depth)
             ELSE SplitLoop(options, k + 1, parts, Append(current, char), depth)

split_options(options) == SplitLoop(options, 1, <<>>, <<>>, 0)

\* The 1-based position of the first "=" of item, 0 if there is none.
FirstEquals(item) ==
    LET at == {i \in 1..Len(item) : item[i] = "="}
    IN  IF at = {} THEN 0 ELSE Min(at)

\* The for loop of _parse_options; the dict is a function key -> value.
RECURSIVE ParseOptionsLoop(_, _, _)
ParseOptionsLoop(items, k, options) ==
    IF k > Len(items) THEN options
    ELSE LET item == items[k]
             eq == FirstEquals(item)
         IN  IF eq = 0 THEN ParseOptionsLoop(items, k + 1, options)
             ELSE LET key == Strip(SubSeq(item, 1, eq - 1))
                      value == Strip(SubSeq(item, eq + 1, Len(item)))
                  IN  ParseOptionsLoop(items, k + 1,
                          [x \in (DOMAIN options) \cup {key} |->
                              IF x = key THEN value ELSE options[x]])

_parse_options(optional) == ParseOptionsLoop(split_options(optional), 1, <<>>)

\* "".join(value.split())
RemoveSpaces(value) == SelectSeq(value, LAMBDA ch : ~IsSpace(ch))

_normalize_tex_keep_braces(value) == RemoveSpaces(value)

_normalize_tex(value) ==
    LET normalized == RemoveSpaces(value)
    IN  IF Len(normalized) > 0 /\ normalized[1] = "{" /\ normalized[Len(normalized)] = "}"
        THEN SubSeq(normalized, 2, Len(normalized) - 1)
        ELSE normalized

\* images.py _issue: the message names required_norm.
ImgIssue(tex_file, offset, rule_id, required_norm) ==
    LET at == IssuePosition(tex_file, offset)
    IN  [rule_id |-> rule_id, message |-> required_norm, path |-> tex_file.path,
         line |-> at.line, col |-> at.col, snippet |-> at.snippet]

\* ImageWidthRule.check
ImageWidthRule_check(files, rule) ==
    LET required_norm == _normalize_tex(rule.required_width)
    IN  ConcatAll([f \in 1..Len(files) |->
            LET tex_file == files[f]
                masked == mask_comments_and_math(tex_file.text)
                spans == iter_command_spans(masked, "includegraphics")
            IN  ConcatAll([n \in 1..Len(spans) |->
                    LET span == spans[n]
                    IN  IF ~span.optional.some
                        THEN <<ImgIssue(tex_file, span.start, "IMG001", required_norm)>>
                        ELSE LET options == _parse_options(span.optional.value)
                             IN  IF <<"width">> \notin DOMAIN options
                                    \/ _normalize_tex(options[<<"width">>]) /= required_norm
                                 THEN <<ImgIssue(tex_file, span.start, "IMG001", required_norm)>>
                                 ELSE <<>>])])

----------------------------------------------------------------------------
(* SpecImg: ImageWidthRule.check on a one-file Document whose text is one  *)
(* \includegraphics written in the shape arg, one of ImgShapes, with the   *)
(* options text, every sequence over OptAlphabet of length at most         *)
(* MaxOptLen and the longer LongOptions; the required width is written W   *)
(* or { W}.                                                                *)

MaxOptLen == 4

\* Longer options, beyond the exhaustive ones: a braced width, a second key
\* before the width, and a key whose braced value holds a comma.
LongOptions ==
    {<<"width", "=", "{", SP, "W", "}">>,
     <<"width", "=", "{", "V", "}">>,
     <<"V", "=", "V", ",", SP, "width", "=", "W">>,
     <<"width", "=", "W", ",", "V", "=", "{", "V", ",", "V", "}">>,
     <<"V", "=", "{", "V", ",", "width", "=", "W", "}">>}

OptAlphabet == {"width", "=", "W", "V", SP, ",", "{", "}"}

\* How the command is written around its options.
ImgShapes == {"plain", "spaced", "unterminated", "twice"}

ImgText(shape, body) ==
    LET cmd == <<"\\includegraphics">>
        file == <<"{", "f", "}">>
    IN  CASE shape = "plain"        -> cmd \o <<"[">> \o body \o <<"]">> \o file
          [] shape = "spaced"       -> cmd \o <<SP, "[">> \o body \o <<"]", NL>> \o file
          [] shape = "unterminated" -> cmd \o <<"[">> \o body \o file
          [] shape = "twice"        -> cmd \o <<"[">> \o body \o <<"]">> \o file
                                           \o <<NL>> \o cmd \o file

RequiredWidths == {<<"W">>, <<"{", SP, "W", "}">>}

InitImg ==
    /\ op = "init"
    /\ result = <<>>
    /\ fs = <<>>
    /\ \E required \in RequiredWidths : config = [images |-> [required_width |-> required]]
    /\ arg \in ImgShapes
    /\ text \in SeqsUpTo(OptAlphabet, MaxOptLen) \cup LongOptions
    /\ document = [files |-> <<TexFile(<<"doc", "main.tex">>, ImgText(arg, text))>>,
                   base_dir |-> <<"doc">>]

ImageWidthCheck ==
    /\ op = "init"
    /\ op' = "ImageWidthRule.check"
    /\ result' = ImageWidthRule_check(document.files, config.images)
    /\ UNCHANGED <<text, arg, fs, config, document>>

NextImg == ImageWidthCheck

SpecImg == InitImg /\ [][NextImg]_vars

\* The command is written in this shape and its options, with their spaces
\* taken out, are the sequence opts.
WrittenAs(shape, opts) ==
    arg = shape /\ SelectSeq(text, LAMBDA ch : ch /= SP) = opts

\* The options carry no width key at all.
WrittenWithoutWidth(shape) ==
    arg = shape /\ \A i \in 1..Len(text) : text[i] /= "width"

\* The number of IMG001 issues at 0-based offset start of the (one-line or
\* two-line) text, i.e. at the position line_col gives that offset.
ImgIssuesAt(start) ==
    Cardinality({k \in 1..Len(result) :
        /\ result[k].rule_id = "IMG001"
        /\ result[k].message = <<"W">>
        /\ <<result[k].line, result[k].col>> = line_col(document.files[1], start)})

\* C10: one IMG001 issue naming the normalized required width for each
\* \includegraphics whose optional argument is absent or unterminated, has no
\* width key, or has a width that differs from the required one; none when
\* the width equals it up to whitespace and one pair of enclosing braces.
C10_ImageWidth ==
    op = "ImageWidthRule.check" =>
        /\ \A k \in 1..Len(result) :
              /\ result[k].rule_id = "IMG001"
              /\ result[k].message = <<"W">>
              /\ result[k].line = 1 \/ result[k].line = 2
        /\ \A shape \in {"plain", "spaced"} :
              /\ (WrittenAs(shape, <<"width", "=", "W">>)
                    \/ WrittenAs(shape, <<"width", "=", "{", "W", "}">>)
                    \/ WrittenAs(shape, <<"V", "=", "V", ",", "width", "=", "W">>)
                    \/ WrittenAs(shape, <<"width", "=", "W", ",", "V", "=", "{", "V", ",", "V", "}">>))
                 => result = <<>>
              /\ (WrittenAs(shape, <<"width", "=", "V">>)
                    \/ WrittenAs(shape, <<"width", "=", "{", "V", "}">>)
                    \/ WrittenAs(shape, <<"width", "=">>)
                    \/ WrittenAs(shape, <<"width">>)
                    \/ WrittenAs(shape, <<"V", "=", "{", "V", ",", "width", "=", "W", "}">>)
                    \/ WrittenWithoutWidth(shape))
                 => Len(result) = 1 /\ ImgIssuesAt(0) = 1
        /\ arg = "unterminated" => Len(result) = 1 /\ ImgIssuesAt(0) = 1
        /\ (WrittenAs("twice", <<"width", "=", "W">>))
              => Len(result) = 1
                 /\ ImgIssuesAt(Len(document.files[1].text) - 4) = 1
        /\ (WrittenAs("twice", <<"width", "=", "V">>) \/ WrittenWithoutWidth("twice"))
              => Len(result) = 2
                 /\ ImgIssuesAt(0) = 1
                 /\ ImgIssuesAt(Len(document.files[1].text) - 4) = 1

\* [ width = {W}] against the required width { W}: equal up to whitespace
\* and one pair of braces, no issue.
C10_Witness ==
    /\ op = "ImageWidthRule.check"
    /\ config.images.required_width = <<"{", SP, "W", "}">>
    /\ arg = "spaced"
    /\ text = <<"width", "=", "{", SP, "W", "}">>
    /\ result = <<>>

----------------------------------------------------------------------------
(* strip_comments_keep_length and mask_math_keep_length in detail           *)
(* (checked under SpecMask)                                                 *)

\* C19: strip_comments_keep_length turns into a space exactly the characters
\* that lie between an unescaped % (an even number of backslashes right
\* before it) and the next newline, the % included and the newline not, and
\* leaves every other character as it was; a % after an odd number of
\* backslashes starts no comment.
C19_CommentsBlankedExactly ==
    op = "strip_comments_keep_length" =>
        /\ Len(result) = Len(text)
        /\ \A i \in 1..Len(text) :
              result[i] = IF InComment(text, i) THEN SP ELSE text[i]

\* An escaped % that is kept, and a later unescaped % on the line that is
\* blanked.
C19_Witness ==
    /\ op = "strip_comments_keep_length"
    /\ \E i \in 1..Len(text) :
          /\ text[i] = "%" /\ OddBackslashRun(text, i - 1) /\ result[i] = "%"
          /\ \E j \in (i + 1)..Len(text) : text[j] = "%" /\ result[j] = SP

\* The kind of math opener at 0-based i, "" when there is none.
OpenerAt(txt, i) ==
    IF txt[i + 1] = "$" /\ ~OddBackslashRun(txt, i)
    THEN IF i + 1 < Len(txt) /\ txt[i + 2] = "$" THEN "$$" ELSE "$"
    ELSE IF StartsWith(txt, <<BS, "(">>, i) THEN "("
    ELSE IF StartsWith(txt, <<BS, "[">>, i) THEN "["
    ELSE ""

\* The offset right after the closer that the opener at s is matched with,
\* None when the search for a closer fails.
RegionEnd(txt, s) ==
    LET kind == OpenerAt(txt, s)
        end  == CASE kind = "$$" -> _find_next(txt, <<"$", "$">>, s + 2)
                  [] kind = "$"  -> _find_next(txt, <<"$">>, s + 1)
                  [] kind = "("  -> Find(txt, <<BS, ")">>, s + 2)
                  [] kind = "["  -> Find(txt, <<BS, "]">>, s + 2)
    IN  IF end = None THEN None
        ELSE IF kind = "$" THEN end + 1 ELSE end + 2

\* The math regions of txt from index on, left to right, up to the first
\* opener without a closer: [regions |-> <<<<start, end>>, ...>>, stop |-> p],
\* stop = None when every opener is closed.
RECURSIVE MathRegions(_, _)
MathRegions(txt, index) ==
    LET openers == {i \in index..(Len(txt) - 1) : OpenerAt(txt, i) /= ""}
    IN  IF openers = {} THEN [regions |-> <<>>, stop |-> None]
        ELSE LET s == Min(openers)
                 e == RegionEnd(txt, s)
             IN  IF e = None THEN [regions |-> <<>>, stop |-> s]
                 ELSE LET r == MathRegions(txt, e)
                      IN  [regions |-> <<<<s, e>>>> \o r.regions, stop |-> r.stop]

\* C20: when mask_math_keep_length meets an opener at p that has no closer,
\* the result equals the input at every position >= p, and every closed math
\* region that begins before p is blanked (newlines kept).
C20_UnterminatedMathStops ==
    op = "mask_math_keep_length" =>
        LET m == MathRegions(text, 0)
        IN  /\ m.stop /= None =>
                  \A i \in (m.stop + 1)..Len(text) : result[i] = text[i]
            /\ \A k \in 1..Len(m.regions) :
                  \A i \in (m.regions[k][1] + 1)..m.regions[k][2] :
                      result[i] = IF text[i] = NL THEN NL ELSE SP

\* \( without \) followed by the closed region $a$, which is left as it is.
C20_Witness ==
    /\ op = "mask_math_keep_length"
    /\ text = <<BS, "(", "$", "a", "$">>
    /\ MathRegions(text, 0).stop = 0
    /\ result = text

----------------------------------------------------------------------------
(* rules/spelling.py: _requires_yo                                          *)
(*                                                                         *)
(* A word is a sequence of letters.  The Cyrillic letters are written by   *)
(* name: "ye" is the letter IE, "yo" the letter IO, "sh" and "r" two other *)
(* Cyrillic letters; "SH" is capital "sh".  Latin letters are "a", "b" and *)
(* capital "A".  A dictionary is a set of words.                           *)

YE == "ye"
YO == "yo"

max_variants_off_by_one == 128 - 1

max_variants == 128

\* positions = [index for index, char in enumerate(word) if char == YE]
YePositions(word) ==
    LET P == {i \in 0..(Len(word) - 1) : word[i + 1] = YE}
    IN  SortedSeq(P)

\* dfs of _requires_yo; st is <<found, checked>> of the enclosing function,
\* chars is the list it edits and restores.
RECURSIVE dfs(_, _, _, _, _, _)
dfs(positions, dictionary, pos_index, chars, replaced, st) ==
    IF st.found \/ st.checked >= max_variants THEN st
    ELSE IF pos_index = Len(positions)
    THEN IF replaced
         THEN [found |-> chars \in dictionary, checked |-> st.checked + 1]
         ELSE st
    ELSE LET skipped == dfs(positions, dictionary, pos_index + 1, chars, replaced, st)
             taken   == [chars EXCEPT ![positions[pos_index + 1] + 1] = YO]
         IN  dfs(positions, dictionary, pos_index + 1, taken, TRUE, skipped)

\* dfs that tests every leaf, the unmodified word included.
RECURSIVE dfs_any_leaf(_, _, _, _, _)
dfs_any_leaf(positions, dictionary, pos_index, chars, st) ==
    IF st.found \/ st.checked >= max_variants THEN st
    ELSE IF pos_index = Len(positions)
    THEN [found |-> chars \in dictionary, checked |-> st.checked + 1]
    ELSE LET skipped == dfs_any_leaf(positions, dictionary, pos_index + 1, chars, st)
             taken   == [chars EXCEPT ![positions[pos_index + 1] + 1] = YO]
         IN  dfs_any_leaf(positions, dictionary, pos_index + 1, taken, skipped)

requires_yo_run_any_leaf(word, dictionary) ==
    IF (\A i \in 1..Len(word) : word[i] /= YE) \/ (\E i \in 1..Len(word) : word[i] = YO)
    THEN [found |-> FALSE, checked |-> 0]
    ELSE dfs_any_leaf(YePositions(word), dictionary, 0, word,
                      [found |-> FALSE, checked |-> 0])

\* The body of _requires_yo: the values of found and checked when it returns.
requires_yo_run(word, dictionary) ==
    IF (\A i \in 1..Len(word) : word[i] /= YE) \/ (\E i \in 1..Len(word) : word[i] = YO)
    THEN [found |-> FALSE, checked |-> 0]
    ELSE dfs(YePositions(word), dictionary, 0, word, FALSE,
             [found |-> FALSE, checked |-> 0])

_requires_yo(word, dictionary) == requires_yo_run(word, dictionary).found

----------------------------------------------------------------------------
(* SpecYo: _requires_yo on every word of at most MaxShortWord letters with *)
(* every dictionary of at most two words of its length, and on long runs   *)
(* of "ye" (up to MaxYe of them) with dictionaries of one or two of their  *)
(* "yo" variants.  text is the word, arg the dictionary.                   *)

MaxShortWord == 3

MaxYe == 8

YoLetters == {YE, YO, "sh"}

RECURSIVE Pow2(_)
Pow2(n) == IF n = 0 THEN 1 ELSE 2 * Pow2(n - 1)

\* The word with the "ye" positions whose bit is set in j replaced by "yo";
\* the last "ye" is bit 0.
Candidate(word, j) ==
    LET positions == YePositions(word)
        k == Len(positions)
        bit(i) == (j \div Pow2(k - i)) % 2
    IN  [p \in 1..Len(word) |->
            IF \E i \in 1..k : positions[i] + 1 = p /\ bit(i) = 1
            THEN YO ELSE word[p]]

YeRun(k) == [i \in 1..k |-> YE]

LongWords == UNION {{YeRun(k), <<"sh">> \o YeRun(k)} : k \in (MaxShortWord + 1)..MaxYe}

YoDictionaries(word) ==
    IF Len(word) <= MaxShortWord
    THEN LET W == [1..Len(word) -> YoLetters]
         IN  {{}} \cup {{v, w} : v \in W, w \in W}
    ELSE LET n == Pow2(Len(YePositions(word))) - 1
         IN  {{}} \cup {{Candidate(word, j)} : j \in 0..n}
                  \cup {{Candidate(word, j), Candidate(word, n)} : j \in 0..n}

InitYo ==
    /\ NoDocument
    /\ text \in SeqsUpTo(YoLetters, MaxShortWord) \cup LongWords
    /\ arg \in YoDictionaries(text)
    /\ op = "init"
    /\ result = <<>>

RequiresYo ==
    /\ op = "init"
    /\ op' = "_requires_yo"
    /\ result' = [value   |-> _requires_yo(text, arg),
                  checked |-> requires_yo_run(text, arg).checked]
    /\ UNCHANGED <<text, arg, fs, config, document>>

NextYo == RequiresYo

SpecYo == InitYo /\ [][NextYo]_vars

YeCount(word) == Cardinality({i \in 1..Len(word) : word[i] = YE})

HasYo(word) == \E i \in 1..Len(word) : word[i] = YO

\* C15: _requires_yo tests the candidates in generation order (candidate j
\* replaces the "ye" whose bit is set in j, the last "ye" being bit 0), at
\* most 128 of them, and stops at the first one in the dictionary: it
\* returns true iff one of the first 128 is in the dictionary, and a form
\* that only a later candidate gives is never found.
C15_CapOf128 ==
    (op = "_requires_yo" /\ YeCount(text) >= 1 /\ ~HasYo(text)) =>
        LET n    == MinOf(128, Pow2(YeCount(text)) - 1)
            hits == {j \in 1..n : Candidate(text, j) \in arg}
        IN  /\ result.value = (hits /= {})
            /\ result.checked = IF hits = {} THEN n ELSE Min(hits)
            /\ result.checked <= 128

\* Eight "ye" and a dictionary whose only word is candidate 129 (the first
\* and the last "ye" replaced): 128 candidates tested, result false.
C15_Witness ==
    /\ op = "_requires_yo"
    /\ text = YeRun(8)
    /\ arg = {Candidate(text, 129)}
    /\ result.value = FALSE
    /\ result.checked = 128

\* C16: for a word with 1 to 7 "ye" and no "yo" the result is true iff
\* replacing some non-empty set of its "ye" by "yo" gives a word of the
\* dictionary; the result is false for a word with a "yo" or without "ye";
\* a dictionary holding only the word itself gives false.
C16_ExhaustiveBelowCap ==
    op = "_requires_yo" =>
        LET P == {i \in 1..Len(text) : text[i] = YE}
            Replaced(S) == [i \in 1..Len(text) |-> IF i \in S THEN YO ELSE text[i]]
        IN  /\ (HasYo(text) \/ P = {}) => result.value = FALSE
            /\ (~HasYo(text) /\ Cardinality(P) \in 1..7) =>
                  result.value = (\E S \in (SUBSET P) \ {{}} : Replaced(S) \in arg)
            /\ arg = {text} => result.value = FALSE

\* Seven "ye" after a consonant, the dictionary holds only the form with all
\* seven replaced: found by the last, 127th, candidate.
C16_Witness ==
    /\ op = "_requires_yo"
    /\ text = <<"sh">> \o YeRun(7)
    /\ arg = {<<"sh">> \o [i \in 1..7 |-> YO]}
    /\ result.value = TRUE
    /\ result.checked = 127

----------------------------------------------------------------------------
(* tex.py: WordScanner                                                      *)
(*                                                                         *)
(* Letters: the Latin letters are the one-letter strings; a Cyrillic       *)
(* letter is written by a name of two or more letters ("sh", "ye", ...),   *)
(* its capital with a capital first letter ("Sh").                         *)

LatinLower == {"a", "b", "c", "d", "e", "f", "g", "h", "i", "j", "k", "l", "m",
               "n", "o", "p", "q", "r", "s", "t", "u", "v", "w", "x", "y", "z"}

LatinUpper == {"A", "X"}

\* The small Cyrillic letters of the range U+0430..U+044F that the model's
\* texts and word tables use.
CyrRange == {"aa", "ve", "ye", "ii", "ij", "ka", "el", "em", "oo", "pe", "er",
             "es", "uu", "ha", "sh", "yeru", "soft", "yu", "ya"}

CyrUpper == {"Sh", "Ye", "Yo"}

\* [A-Za-z<Cyrillic A..ya><YO><yo>] of WORD_RE; str.isalpha on the model's
\* characters.
Letters == LatinLower \cup LatinUpper \cup CyrRange \cup CyrUpper \cup {YO}

IsAlpha(ch) == ch \in Letters

\* str.casefold on one character
Fold(ch) ==
    CASE ch = "A" -> "a"
      [] ch = "X" -> "x"
      [] ch = "Sh" -> "sh"
      [] ch = "Ye" -> YE
      [] ch = "Yo" -> YO
      [] OTHER -> ch

casefold(word) == [i \in 1..Len(word) |-> Fold(word[i])]

\* WORD_RE.finditer(text[a:b]): the matches letters+(-letters+)* from left to
\* right, each as <<word, offset>> with the offset in text.
RECURSIVE LetterRunEnd(_, _, _)
LetterRunEnd(txt, i, b) ==
    IF i < b /\ IsAlpha(txt[i + 1]) THEN LetterRunEnd(txt, i + 1, b) ELSE i

RECURSIVE WordEnd(_, _, _)
WordEnd(txt, i, b) ==
    LET e == LetterRunEnd(txt, i, b)
    IN  IF e + 1 < b /\ txt[e + 1] = "-" /\ IsAlpha(txt[e + 2])
        THEN WordEnd(txt, e + 1, b)
        ELSE e

RECURSIVE WordsIn(_, _, _)
WordsIn(txt, a, b) ==
    IF a >= b THEN <<>>
    ELSE IF IsAlpha(txt[a + 1])
         THEN LET e == WordEnd(txt, a, b)
              IN  <<<<Slice(txt, a, e), a>>>> \o WordsIn(txt, e, b)
         ELSE WordsIn(txt, a + 1, b)

RECURSIVE _scan_skip_comment(_, _)
_scan_skip_comment(txt, index) ==
    IF index < Len(txt) /\ txt[index + 1] /= NL
    THEN _scan_skip_comment(txt, index + 1)
    ELSE index

_scan_is_math_start(txt, index) ==
    IF txt[index + 1] = "$" /\ ~is_escaped(txt, index) THEN TRUE
    ELSE StartsWith(txt, <<BS, "(">>, index) \/ StartsWith(txt, <<BS, "[">>, index)

_scan_skip_math(txt, index) ==
    IF txt[index + 1] = "$" /\ ~is_escaped(txt, index)
    THEN IF index + 1 < Len(txt) /\ txt[index + 2] = "$"
         THEN LET end == _find_next(txt, <<"$", "$">>, index + 2)
              IN  IF end /= None THEN end + 2 ELSE Len(txt)
         ELSE LET end == _find_next(txt, <<"$">>, index + 1)
              IN  IF end /= None THEN end + 1 ELSE Len(txt)
    ELSE IF StartsWith(txt, <<BS, "(">>, index)
    THEN LET end == Find(txt, <<BS, ")">>, index + 2)
         IN  IF end /= 0 - 1 THEN end + 2 ELSE Len(txt)
    ELSE IF StartsWith(txt, <<BS, "[">>, index)
    THEN LET end == Find(txt, <<BS, "]">>, index + 2)
         IN  IF end /= 0 - 1 THEN end + 2 ELSE Len(txt)
    ELSE index + 1

RECURSIVE AlphaRunEnd(_, _)
AlphaRunEnd(txt, index) ==
    IF index < Len(txt) /\ IsAlpha(txt[index + 1])
    THEN AlphaRunEnd(txt, index + 1)
    ELSE index

\* _scan_parse_command: <<cmd, index>>, cmd = <<>> for "".
_scan_parse_command(txt, index0) ==
    IF index0 >= Len(txt) \/ txt[index0 + 1] /= BS THEN <<<<>>, index0>>
    ELSE LET index == index0 + 1
         IN  IF index >= Len(txt) THEN <<<<>>, index>>
             ELSE IF IsAlpha(txt[index + 1])
                  THEN LET stop == AlphaRunEnd(txt, index)
                       IN  <<Slice(txt, index, stop), stop>>
                  ELSE <<<<txt[index + 1]>>, index + 1>>

_scan_skip_optional(txt, index0) ==
    LET index == _skip_whitespace(txt, index0)
    IN  IF index < Len(txt) /\ txt[index + 1] = "["
        THEN LET end == find_matching_bracket(txt, index)
             IN  IF end = None THEN index ELSE end + 1
        ELSE index

\* The for loop of _scan_skip_command_args with n arguments left to skip.
RECURSIVE SkipArgsLoop(_, _, _)
SkipArgsLoop(txt, index0, n) ==
    IF n = 0 THEN index0
    ELSE LET index == _skip_whitespace(txt, index0)
         IN  IF index < Len(txt) /\ txt[index + 1] = "{"
             THEN LET end == find_matching_brace(txt, index)
                  IN  IF end = None THEN index + 1
                      ELSE SkipArgsLoop(txt, end + 1, n - 1)
             ELSE index

\* _scan_skip_command_args that skips one argument for every command.
_scan_skip_one_arg(txt, index0, command, skip_two_args) ==
    SkipArgsLoop(txt, _scan_skip_optional(txt, index0), 1)

_scan_skip_command_args(txt, index0, command, skip_two_args) ==
    LET index == _scan_skip_optional(txt, index0)
        args_to_skip == IF command \in skip_two_args THEN 2 ELSE 1
    IN  SkipArgsLoop(txt, index, args_to_skip)

BeginName == <<"b", "e", "g", "i", "n">>

EndName == <<"e", "n", "d">>

\* The pattern \\(begin|end)\s*\{env_name\} of _scan_skip_environment tried at
\* 0-based p: [kind, end] of the match, kind = "" when it does not match.
EnvPatternAt(txt, env_name, p) ==
    LET kind == IF StartsWith(txt, <<BS>> \o BeginName, p) THEN "begin"
                ELSE IF StartsWith(txt, <<BS>> \o EndName, p) THEN "end"
                ELSE ""
        after == p + 1 + (IF kind = "begin" THEN Len(BeginName) ELSE Len(EndName))
        brace == _skip_whitespace(txt, after)
    IN  IF kind /= "" /\ StartsWith(txt, <<"{">> \o env_name \o <<"}">>, brace)
        THEN [kind |-> kind, end |-> brace + Len(env_name) + 2]
        ELSE [kind |-> "", end |-> p]

\* The for loop of _scan_skip_environment over pattern.finditer(text, index).
RECURSIVE SkipEnvLoop(_, _, _, _)
SkipEnvLoop(txt, env_name, index, depth) ==
    LET starts == {p \in index..(Len(txt) - 1) : EnvPatternAt(txt, env_name, p).kind /= ""}
    IN  IF starts = {} THEN Len(txt)
        ELSE LET match == EnvPatternAt(txt, env_name, Min(starts))
             IN  IF match.kind = "begin"
                 THEN SkipEnvLoop(txt, env_name, match.end, depth + 1)
                 ELSE IF depth - 1 = 0 THEN match.end
                      ELSE SkipEnvLoop(txt, env_name, match.end, depth - 1)

\* A skip that stops at the first \end of the environment, nested pairs
\* not counted.
_scan_skip_to_first_end(txt, env_name, index) ==
    LET ends == {p \in index..(Len(txt) - 1) : EnvPatternAt(txt, env_name, p).kind = "end"}
    IN  IF ends = {} THEN Len(txt) ELSE EnvPatternAt(txt, env_name, Min(ends)).end

_scan_skip_environment(txt, env_name, index) == SkipEnvLoop(txt, env_name, index, 1)

\* _scan_skip_first_braced that skips white space only.
_scan_skip_no_braced(txt, index0) == _skip_whitespace(txt, index0)

_scan_skip_first_braced(txt, index0) ==
    LET index == _skip_whitespace(txt, index0)
    IN  IF index < Len(txt) /\ txt[index + 1] = "{"
        THEN LET end == find_matching_brace(txt, index)
             IN  IF end = None THEN index + 1 ELSE end + 1
        ELSE index

RECURSIVE _scan_next_special(_, _, _)
_scan_next_special(txt, index, end) ==
    IF index < end
    THEN IF txt[index + 1] \in {BS, "%", "$"} THEN index
         ELSE _scan_next_special(txt, index + 1, end)
    ELSE end

\* WordScanner._handle_begin
_handle_begin(self, txt, index) ==
    LET parsed == _scan_parse_command(txt, index)
    IN  IF parsed[1] /= BeginName THEN index
        ELSE LET next_index == _scan_skip_optional(txt, parsed[2])
             IN  IF next_index >= Len(txt) \/ txt[next_index + 1] /= "{" THEN next_index
                 ELSE LET env_end == find_matching_brace(txt, next_index)
                      IN  IF env_end = None THEN next_index + 1
                          ELSE LET env_name == Strip(Slice(txt, next_index + 1, env_end))
                               IN  IF env_name \in self.ignore_envs
                                   THEN _scan_skip_environment(txt, env_name, env_end + 1)
                                   ELSE env_end + 1

\* WordScanner._scan_range: the words it yields, in order, as <<word, offset>>.
\* ScanBraced is the tail shared by the second-argument and the default
\* branch: descend into {...} at index, or go on at index.
RECURSIVE _scan_range(_, _, _, _)
RECURSIVE ScanBraced(_, _, _, _)
RECURSIVE ScanCommand(_, _, _, _)

ScanBraced(self, txt, index, end) ==
    IF index < end /\ txt[index + 1] = "{"
    THEN LET arg_end == find_matching_brace(txt, index)
         IN  IF arg_end = None THEN _scan_range(self, txt, index + 1, end)
             ELSE _scan_range(self, txt, index + 1, arg_end)
                    \o _scan_range(self, txt, arg_end + 1, end)
    ELSE _scan_range(self, txt, index, end)

\* The branch "if char == backslash" of _scan_range.
ScanCommand(self, txt, index0, end) ==
    LET parsed == _scan_parse_command(txt, index0)
        cmd    == parsed[1]
        index  == parsed[2]
    IN  IF cmd = <<>> THEN _scan_range(self, txt, index, end)
        ELSE IF cmd \in {BeginName, EndName}
        THEN _scan_range(self, txt,
                 _scan_skip_command_args(txt, index, cmd, self.skip_two_args), end)
        ELSE IF cmd \in self.skip_commands /\ cmd \notin self.keep_commands
        THEN _scan_range(self, txt,
                 _scan_skip_command_args(txt, index, cmd, self.skip_two_args), end)
        ELSE IF cmd \in self.second_arg_commands
        THEN ScanBraced(self, txt,
                 _scan_skip_first_braced(txt, _scan_skip_optional(txt, index)), end)
        ELSE ScanBraced(self, txt, _scan_skip_optional(txt, index), end)

_scan_range(self, txt, index, end) ==
    IF index >= end THEN <<>>
    ELSE LET char == txt[index + 1]
         IN  IF char = "%" /\ ~is_escaped(txt, index)
             THEN _scan_range(self, txt, _scan_skip_comment(txt, index), end)
             ELSE IF _scan_is_math_start(txt, index)
             THEN _scan_range(self, txt, _scan_skip_math(txt, index), end)
             ELSE LET next_index == IF StartsWith(txt, <<BS>> \o BeginName, index)
                                    THEN _handle_begin(self, txt, index)
                                    ELSE index
                  IN  IF next_index /= index
                      THEN _scan_range(self, txt, next_index, end)
                      ELSE IF char = BS THEN ScanCommand(self, txt, index, end)
                      ELSE LET next_special == _scan_next_special(txt, index, end)
                           IN  WordsIn(txt, index, next_special)
                                 \o _scan_range(self, txt, next_special, end)

\* WordScanner(...): the scanner's fields.
WordScanner(ignore_envs, skip_commands, keep_commands, skip_two_args, second_arg_commands) ==
    [ignore_envs |-> ignore_envs, skip_commands |-> skip_commands,
     keep_commands |-> keep_commands, skip_two_args |-> skip_two_args,
     second_arg_commands |-> second_arg_commands]

\* WordScanner.iter_words(text)
iter_words(self, txt) == _scan_range(self, txt, 0, Len(txt))

----------------------------------------------------------------------------
(* rules/spelling.py: SpellcheckRule                                        *)

SKIP_TWO_ARGS == {<<"h", "r", "e", "f">>, <<"h", "y", "p", "e", "r", "r", "e", "f">>}

SECOND_ARG_COMMANDS == {<<"c", "a", "p", "t", "i", "o", "n", "o", "f">>}

\* The stem "piksel" of the two tables of forms.
PixelStem == <<"pe", "ii", "ka", "es", "ye", "el">>

PIXEL_FORMS ==
    {PixelStem \o ending : ending \in
        {<<"soft">>, <<"ya">>, <<"yu">>, <<"ye", "em">>, <<"ye">>, <<"ii">>,
         <<"ye", "ij">>, <<"ya", "em">>, <<"ya", "em", "ii">>, <<"ya", "ha">>}}

PIXEL_ALLOWED_FORMS ==
    {PixelStem \o ending : ending \in
        {<<>>, <<"aa">>, <<"uu">>, <<"oo", "em">>, <<"ye">>, <<"yeru">>,
         <<"oo", "ve">>, <<"aa", "em">>, <<"aa", "em", "ii">>, <<"aa", "ha">>}}

SYSTEM_EN_WORDLISTS == <<<<"/", "usr", "share", "dict", "words">>,
                         <<"/", "usr", "dict", "words">>>>

\* The file a dictionary or configuration path names, as the key of fs.
PathKey(path) ==
    IF path = SYSTEM_EN_WORDLISTS[1] THEN "/usr/share/dict/words"
    ELSE IF path = SYSTEM_EN_WORDLISTS[2] THEN "/usr/dict/words"
    ELSE PathName(path)

\* Path.exists()
IsFile(path) == fs[PathKey(path)].status /= "missing"

\* str.splitlines() for texts whose only line break is the newline
RECURSIVE SplitLinesFrom(_, _, _)
SplitLinesFrom(txt, index, current) ==
    IF index >= Len(txt)
    THEN IF current = <<>> THEN <<>> ELSE <<current>>
    ELSE IF txt[index + 1] = NL
         THEN <<current>> \o SplitLinesFrom(txt, index + 1, <<>>)
         ELSE SplitLinesFrom(txt, index + 1, Append(current, txt[index + 1]))

splitlines(txt) == SplitLinesFrom(txt, 0, <<>>)

\* WORD_RE.fullmatch(word)
FullMatchWord(word) ==
    /\ Len(word) > 0
    /\ IsAlpha(word[1])
    /\ WordEnd(word, 0, Len(word)) = Len(word)

\* _system_wordlists
_system_wordlists ==
    SelectSeq(SYSTEM_EN_WORDLISTS, LAMBDA path : IsFile(path))

\* The words one dictionary file adds: none when it does not exist or
\* reading it raises OSError.
WordsOfFile(path) ==
    IF ~IsFile(path) \/ fs[PathKey(path)].status /= "ok" THEN {}
    ELSE LET lines == splitlines(fs[PathKey(path)].text)
         IN  {casefold(Strip(lines[k])) : k \in
                {k \in 1..Len(lines) :
                    /\ Strip(lines[k]) /= <<>>
                    /\ Strip(lines[k])[1] /= "#"
                    /\ FullMatchWord(casefold(Strip(lines[k])))}}

_load_wordlists(paths) == UNION {WordsOfFile(paths[k]) : k \in 1..Len(paths)}

\* The for loop of _split_hyphenated over word.split("-"), read character by
\* character: part is the part being read, current its offset.
RECURSIVE SplitHyphenLoop(_, _, _, _)
SplitHyphenLoop(word, k, part, current) ==
    IF k > Len(word)
    THEN IF part /= <<>> THEN <<<<part, current>>>> ELSE <<>>
    ELSE IF word[k] = "-"
         THEN (IF part /= <<>> THEN <<<<part, current>>>> ELSE <<>>)
                \o SplitHyphenLoop(word, k + 1, <<>>, current + Len(part) + 1)
         ELSE SplitHyphenLoop(word, k + 1, Append(part, word[k]), current)

\* _split_hyphenated that forgets the hyphen when it moves the offset on.
RECURSIVE SplitHyphenLoopNoHyphen(_, _, _, _)
SplitHyphenLoopNoHyphen(word, k, part, current) ==
    IF k > Len(word)
    THEN IF part /= <<>> THEN <<<<part, current>>>> ELSE <<>>
    ELSE IF word[k] = "-"
         THEN (IF part /= <<>> THEN <<<<part, current>>>> ELSE <<>>)
                \o SplitHyphenLoopNoHyphen(word, k + 1, <<>>, current + Len(part))
         ELSE SplitHyphenLoopNoHyphen(word, k + 1, Append(part, word[k]), current)

_split_hyphenated_no_hyphen(word, offset) ==
    IF \A k \in 1..Len(word) : word[k] /= "-" THEN <<<<word, offset>>>>
    ELSE SplitHyphenLoopNoHyphen(word, 1, <<>>, offset)

_split_hyphenated(word, offset) ==
    IF \A k \in 1..Len(word) : word[k] /= "-" THEN <<<<word, offset>>>>
    ELSE SplitHyphenLoop(word, 1, <<>>, offset)

\* str.isupper(): some cased character and no lower-case one.
isupper(word) ==
    /\ \E k \in 1..Len(word) : word[k] \in LatinUpper \cup CyrUpper
    /\ \A k \in 1..Len(word) : word[k] \notin LatinLower \cup CyrRange \cup {YO}

IsCyrillicChar(ch) == Fold(ch) \in CyrRange \/ ch \in {YO, "Yo"}

IsLatinChar(ch) == Fold(ch) \in LatinLower

_is_cyrillic(word) == \A k \in 1..Len(word) : IsCyrillicChar(word[k]) \/ word[k] = "-"

_is_latin(word) == \A k \in 1..Len(word) : IsLatinChar(word[k]) \/ word[k] = "-"

_is_mixed_script(word) ==
    /\ \E k \in 1..Len(word) : IsCyrillicChar(word[k])
    /\ \E k \in 1..Len(word) : IsLatinChar(word[k])

\* _issue of spelling.py
SpellIssue(tex_file, offset, rule_id, message) ==
    LET at == IssuePosition(tex_file, offset)
    IN  [rule_id |-> rule_id, message |-> message, path |-> tex_file.path,
         line |-> at.line, col |-> at.col, snippet |-> at.snippet]

\* _check_word without the test "if ru_words" / "if en_words".
_check_word_unguarded(word, offset, tex_file, custom_words, ru_words, en_words, rule) ==
    LET lowered == casefold(word)
    IN  IF Len(word) < rule.min_word_length THEN <<>>
        ELSE IF rule.ignore_uppercase_acronyms /\ isupper(word) /\ Len(word) <= 5 THEN <<>>
        ELSE IF \E k \in 1..Len(word) : word[k] \in {"0", "1"} THEN <<>>
        ELSE IF _is_mixed_script(word) THEN <<>>
        ELSE IF lowered \in PIXEL_FORMS
        THEN <<SpellIssue(tex_file, offset, "SPELL002", <<"use piksel">>)>>
        ELSE IF lowered \in PIXEL_ALLOWED_FORMS THEN <<>>
        ELSE IF _is_cyrillic(word)
        THEN IF lowered \in custom_words \/ lowered \in ru_words
             THEN IF _requires_yo(lowered, ru_words \cup custom_words)
                  THEN <<SpellIssue(tex_file, offset, "SPELL003", <<"use yo">>)>>
                  ELSE <<>>
             ELSE <<SpellIssue(tex_file, offset, "SPELL001", <<"unknown word", word>>)>>
        ELSE IF _is_latin(word)
        THEN IF lowered \in custom_words \/ lowered \in en_words THEN <<>>
             ELSE <<SpellIssue(tex_file, offset, "SPELL001", <<"unknown word", word>>)>>
        ELSE <<>>

\* _check_word: the issues it appends (none or one).  The scanner's words
\* hold no digit, so the digit test never fires.
_check_word(word, offset, tex_file, custom_words, ru_words, en_words, rule) ==
    LET lowered == casefold(word)
    IN  IF Len(word) < rule.min_word_length THEN <<>>
        ELSE IF rule.ignore_uppercase_acronyms /\ isupper(word) /\ Len(word) <= 5 THEN <<>>
        ELSE IF \E k \in 1..Len(word) : word[k] \in {"0", "1"} THEN <<>>
        ELSE IF _is_mixed_script(word) THEN <<>>
        ELSE IF lowered \in PIXEL_FORMS
        THEN <<SpellIssue(tex_file, offset, "SPELL002", <<"use piksel">>)>>
        ELSE IF lowered \in PIXEL_ALLOWED_FORMS THEN <<>>
        ELSE IF _is_cyrillic(word)
        THEN IF ru_words /= {}
             THEN IF lowered \in custom_words \/ lowered \in ru_words
                  THEN IF _requires_yo(lowered, ru_words \cup custom_words)
                       THEN <<SpellIssue(tex_file, offset, "SPELL003", <<"use yo">>)>>
                       ELSE <<>>
                  ELSE <<SpellIssue(tex_file, offset, "SPELL001", <<"unknown word", word>>)>>
             ELSE <<>>
        ELSE IF _is_latin(word)
        THEN IF en_words /= {}
             THEN IF lowered \in custom_words \/ lowered \in en_words THEN <<>>
                  ELSE <<SpellIssue(tex_file, offset, "SPELL001", <<"unknown word", word>>)>>
             ELSE <<>>
        ELSE <<>>

\* _config_issue: ctx is [base_dir, config_path], config_path = <<>> for None.
_config_issue(ctx, rule_id, message) ==
    LET path == IF ctx.config_path /= <<>> THEN ctx.config_path
                ELSE ctx.base_dir \o <<"lint-gost-tex.toml">>
        lines == IF IsFile(path) THEN splitlines(fs[PathKey(path)].text) ELSE <<>>
    IN  [rule_id |-> rule_id, message |-> message, path |-> path,
         line |-> 1, col |-> 1,
         snippet |-> IF lines /= <<>> THEN lines[1] ELSE <<>>]

\* SpellcheckRule.check: the list of issues.
SpellcheckRule_check(files, ctx, rule) ==
    LET custom_words == _load_wordlists(<<rule.custom_dict>>)
        ru_words == _load_wordlists(rule.extra_ru_dicts)
        en_words == _load_wordlists(rule.extra_en_dicts \o _system_wordlists)
        scanner == WordScanner(rule.ignore_envs, rule.skip_commands, rule.keep_commands,
                               SKIP_TWO_ARGS, SECOND_ARG_COMMANDS)
    IN  (IF ru_words = {}
         THEN <<_config_issue(ctx, "SPELL000", <<"missing Russian dictionary">>)>>
         ELSE <<>>)
        \o (IF en_words = {}
            THEN <<_config_issue(ctx, "SPELL000", <<"missing English dictionary">>)>>
            ELSE <<>>)
        \o ConcatAll([f \in 1..Len(files) |->
              LET tex_file == files[f]
                  words == iter_words(scanner, tex_file.text)
              IN  ConcatAll([w \in 1..Len(words) |->
                     LET parts == _split_hyphenated(words[w][1], words[w][2])
                     IN  ConcatAll([q \in 1..Len(parts) |->
                            _check_word(parts[q][1], parts[q][2], tex_file,
                                        custom_words, ru_words, en_words, rule)])])])

----------------------------------------------------------------------------
(* SpecSpell: SpellcheckRule.check on a Document of one file, main.tex,    *)
(* holding every text over SpellAlphabet of length at most MaxSpellLen or  *)
(* one of SpellLongTexts, with the dictionary files custom.txt, ru.txt,    *)
(* en.txt and the system word list each missing or holding a few lines,    *)
(* and the configuration file present or missing.                          *)

MaxSpellLen == 3

SpellAlphabet == {YE, "sh", "x", "-", SP}

SpellLongTexts ==
    { <<"sh", YO>>,
      PixelStem \o <<"soft">>,
      PixelStem,
      PixelStem \o <<"ye">>,
      PixelStem \o <<"aa">>,
      <<"x", NL, "sh", YE, SP, "sh">>,
      <<BS, "r", "e", "f", "{", "sh", "}", SP, "sh">>,
      <<"%", "sh", NL, "sh", YE>>,
      <<"$", "x", "$", "sh", YE>>,
      <<"sh", YE, "-", "sh", "-", "x", "x">>,
      <<"Sh", "Sh", "Sh", "Sh", "Sh", "Sh">>,
      <<"Sh", "Sh", SP, "X">>,
      <<"Sh", YE, "-", "Sh">>,
      <<"X", "x", SP, "Sh", "x">> }

MissingFile == [status |-> "missing", text |-> <<>>]

UnreadableFile == [status |-> "unreadable", text |-> <<>>]

FileWith(txt) == [status |-> "ok", text |-> txt]

RuChoices ==
    { MissingFile, UnreadableFile, FileWith(<<>>),
      FileWith(<<"sh", YO, NL>>),
      FileWith(<<"sh", YE, NL>>),
      FileWith(<<"sh", YE, NL, "sh", YO, NL>>),
      FileWith(<<"#", "sh", NL, SP, "Sh", YE, SP, NL, "x", "0", NL, "sh", "-", "sh", NL>>) }

CustomChoices == {MissingFile, FileWith(<<"sh", YE, NL>>), FileWith(<<"x", NL>>)}

\* <<en.txt, /usr/share/dict/words>>
EnChoices ==
    { <<MissingFile, MissingFile>>,
      <<FileWith(<<"x", NL>>), MissingFile>>,
      <<MissingFile, FileWith(<<"x", NL, "x", "-", "x", NL>>)>> }

ConfigFileChoices == {MissingFile, FileWith(<<"c", NL>>)}

\* <<min_word_length, ignore_uppercase_acronyms>>
SpellRuleChoices == {<<1, FALSE>>, <<2, FALSE>>, <<1, TRUE>>}

ConfigPath == <<"doc", "lint-gost-tex.toml">>

MainPath == <<"doc", "main.tex">>

InitSpell ==
    /\ op = "init"
    /\ arg = None
    /\ result = <<>>
    /\ text \in SeqsUpTo(SpellAlphabet, MaxSpellLen) \cup SpellLongTexts
    /\ \E ru \in RuChoices, custom \in CustomChoices, en \in EnChoices,
          cfg \in ConfigFileChoices :
          fs = [n \in {"custom.txt", "ru.txt", "en.txt", "/usr/share/dict/words",
                       "/usr/dict/words", "lint-gost-tex.toml"} |->
                  CASE n = "custom.txt" -> custom
                    [] n = "ru.txt" -> ru
                    [] n = "en.txt" -> en[1]
                    [] n = "/usr/share/dict/words" -> en[2]
                    [] n = "/usr/dict/words" -> MissingFile
                    [] n = "lint-gost-tex.toml" -> cfg]
    /\ \E rule \in SpellRuleChoices :
          config = [spellcheck |->
                       [custom_dict |-> <<"doc", "custom.txt">>,
                        extra_ru_dicts |-> <<<<"doc", "ru.txt">>>>,
                        extra_en_dicts |-> <<<<"doc", "en.txt">>>>,
                        ignore_envs |-> {<<"v">>},
                        skip_commands |-> {<<"r", "e", "f">>},
                        keep_commands |-> {},
                        min_word_length |-> rule[1],
                        ignore_uppercase_acronyms |-> rule[2]],
                    config_path |-> ConfigPath]
    /\ document = [files |-> <<TexFile(MainPath, text)>>, base_dir |-> <<"doc">>]

SpellCheck ==
    /\ op = "init"
    /\ op' = "SpellcheckRule.check"
    /\ result' = SpellcheckRule_check(document.files,
                     [base_dir |-> document.base_dir, config_path |-> config.config_path],
                     config.spellcheck)
    /\ UNCHANGED <<text, arg, fs, config, document>>

NextSpell == SpellCheck

SpecSpell == InitSpell /\ [][NextSpell]_vars

\* The word sets the rule works with.
CustomWords == _load_wordlists(<<config.spellcheck.custom_dict>>)

RuWords == _load_wordlists(config.spellcheck.extra_ru_dicts)

EnWords == _load_wordlists(config.spellcheck.extra_en_dicts \o _system_wordlists)

\* The word occurrences the scanner yields for main.tex, as a set of
\* <<word, offset>>.
ScannedWords ==
    LET words == iter_words(WordScanner(config.spellcheck.ignore_envs,
                                        config.spellcheck.skip_commands,
                                        config.spellcheck.keep_commands,
                                        SKIP_TWO_ARGS, SECOND_ARG_COMMANDS), text)
    IN  {words[k] : k \in 1..Len(words)}

\* The hyphen-separated parts of the scanned words: the maximal runs of
\* letters inside them, as <<part, offset>>.
ScannedParts ==
    UNION {{<<Slice(text, a, b), a>> :
               a \in w[2]..(w[2] + Len(w[1]) - 1), b \in (w[2] + 1)..(w[2] + Len(w[1]))}
           : w \in ScannedWords}

IsPart(part) ==
    LET a == part[2]
        b == part[2] + Len(part[1])
    IN  /\ Len(part[1]) >= 1
        /\ \A k \in 1..Len(part[1]) : part[1][k] /= "-"
        /\ (a = 0 \/ ~IsAlpha(text[a]))
        /\ (b = Len(text) \/ ~IsAlpha(text[b + 1]))

Parts == {part \in ScannedParts : IsPart(part)}

AllCyrillic(word) == \A k \in 1..Len(word) : word[k] \in CyrRange \cup CyrUpper \cup {YO}

AllLatin(word) == \A k \in 1..Len(word) : word[k] \in LatinLower \cup LatinUpper

\* The reference dictionary of the word's script.
ScriptWords(word) ==
    IF AllCyrillic(word) THEN RuWords ELSE IF AllLatin(word) THEN EnWords ELSE {}

\* The number of issues of one rule at 0-based offset of main.tex.
SpellIssuesAt(rule_id, offset) ==
    Cardinality({k \in 1..Len(result) :
        /\ result[k].rule_id = rule_id
        /\ result[k].path = MainPath
        /\ <<result[k].line, result[k].col>> = line_col(document.files[1], offset)})

\* Some non-empty set of the word's "ye" replaced by "yo" gives a word of D.
HasYoVariantIn(word, D) ==
    LET P == {i \in 1..Len(word) : word[i] = YE}
    IN  \E S \in (SUBSET P) \ {{}} :
            [i \in 1..Len(word) |-> IF i \in S THEN YO ELSE word[i]] \in D

\* C12: a Russian word that the dictionaries hold only in its "yo" form and
\* the text spells with "ye" gets exactly one SPELL003 issue and no SPELL001
\* issue.
C12_YoFormOnlyInDictionary ==
    op = "SpellcheckRule.check" =>
        \A part \in Parts :
            (/\ AllCyrillic(part[1])
             /\ casefold(part[1]) \notin CustomWords \cup RuWords \cup EnWords
             /\ HasYoVariantIn(casefold(part[1]), CustomWords \cup RuWords))
            => /\ SpellIssuesAt("SPELL003", part[2]) = 1
               /\ SpellIssuesAt("SPELL001", part[2]) = 0

\* C13: a word whose lower-case form is in the custom dictionary or in the
\* reference dictionary of its script gets no spelling issue, whatever else
\* the dictionaries hold.
C13_KnownWordHasNoIssue ==
    op = "SpellcheckRule.check" =>
        \A part \in Parts :
            casefold(part[1]) \in CustomWords \cup ScriptWords(part[1])
            => \A id \in {"SPELL001", "SPELL002", "SPELL003"} :
                  SpellIssuesAt(id, part[2]) = 0

\* C14 as stated: every word the scanner yields whose lower-case form is in
\* neither the custom nor its script's reference dictionary gets exactly one
\* SPELL001 issue at its offset.
C14_AsStated ==
    op = "SpellcheckRule.check" =>
        \A w \in ScannedWords :
            casefold(w[1]) \notin CustomWords \cup ScriptWords(w[1])
            => SpellIssuesAt("SPELL001", w[2]) = 1

\* The part is one the rule looks up: long enough, not an ignored acronym,
\* of one script, not a form of "piksel", and its script has a dictionary.
LookedUp(word) ==
    /\ Len(word) >= config.spellcheck.min_word_length
    /\ ~(/\ config.spellcheck.ignore_uppercase_acronyms
         /\ Len(word) <= 5
         /\ \A k \in 1..Len(word) : word[k] \in LatinUpper \cup CyrUpper)
    /\ AllCyrillic(word) \/ AllLatin(word)
    /\ casefold(word) \notin PIXEL_FORMS \cup PIXEL_ALLOWED_FORMS
    /\ ScriptWords(word) /= {}

\* C14: every hyphen-separated part of a scanned word that the rule looks up
\* and whose lower-case form is in neither the custom nor its script's
\* reference dictionary gets exactly one SPELL001 issue at the part's
\* offset, and these are all the SPELL001 issues.
C14_UnknownPart ==
    op = "SpellcheckRule.check" =>
        LET unknown == {part \in Parts :
                           /\ LookedUp(part[1])
                           /\ casefold(part[1]) \notin CustomWords \cup ScriptWords(part[1])}
        IN  /\ \A part \in unknown : SpellIssuesAt("SPELL001", part[2]) = 1
            /\ Cardinality({k \in 1..Len(result) : result[k].rule_id = "SPELL001"})
                  = Cardinality(unknown)

\* sh-x with a Russian dictionary that does not hold sh and an English one
\* that holds x: one SPELL001 issue, at the first part, none at the second.
C14_Witness ==
    /\ op = "SpellcheckRule.check"
    /\ text = <<"sh", "-", "x">>
    /\ RuWords = {<<"sh", YO>>}
    /\ EnWords = {<<"x">>, <<"x", "-", "x">>}
    /\ CustomWords = {}
    /\ config.spellcheck.min_word_length = 1
    /\ SpellIssuesAt("SPELL001", 0) = 1
    /\ SpellIssuesAt("SPELL001", 2) = 0
    /\ Len(result) = 1

\* The number of configuration issues with the given message, at line 1
\* column 1 of the configuration file.
ConfigIssues(message) ==
    Cardinality({k \in 1..Len(result) :
        /\ result[k].rule_id = "SPELL000"
        /\ result[k].message = message
        /\ result[k].path = ConfigPath
        /\ result[k].line = 1 /\ result[k].col = 1})

IsMissing(name) == fs[name].status = "missing"

\* C18: a missing dictionary file adds no word; a language whose word set is
\* empty gets exactly one SPELL000 issue at line 1 column 1 of the
\* configuration file (and a language with words none), and no word of that
\* language gets a SPELL001 or SPELL003 issue.
C18_MissingDictionary ==
    op = "SpellcheckRule.check" =>
        /\ IsMissing("ru.txt") => RuWords = {}
        /\ (IsMissing("en.txt") /\ IsMissing("/usr/share/dict/words")) => EnWords = {}
        /\ IsMissing("custom.txt") => CustomWords = {}
        /\ ConfigIssues(<<"missing Russian dictionary">>) = IF RuWords = {} THEN 1 ELSE 0
        /\ ConfigIssues(<<"missing English dictionary">>) = IF EnWords = {} THEN 1 ELSE 0
        /\ Cardinality({k \in 1..Len(result) : result[k].rule_id = "SPELL000"})
              = (IF RuWords = {} THEN 1 ELSE 0) + (IF EnWords = {} THEN 1 ELSE 0)
        /\ \A part \in Parts :
              ((AllCyrillic(part[1]) /\ RuWords = {}) \/ (AllLatin(part[1]) /\ EnWords = {}))
              => /\ SpellIssuesAt("SPELL001", part[2]) = 0
                 /\ SpellIssuesAt("SPELL003", part[2]) = 0

\* ru.txt is missing and the text is a Russian word followed by an English
\* word that en.txt holds: the one issue is the SPELL000 issue for Russian.
C18_Witness ==
    /\ op = "SpellcheckRule.check"
    /\ IsMissing("ru.txt")
    /\ EnWords = {<<"x">>}
    /\ CustomWords = {}
    /\ text = <<"sh", SP, "x">>
    /\ config.spellcheck.min_word_length = 1
    /\ ~config.spellcheck.ignore_uppercase_acronyms
    /\ ConfigIssues(<<"missing Russian dictionary">>) = 1
    /\ Len(result) = 1

----------------------------------------------------------------------------
(* rules/lists.py: the items of the top-level lists and the rule of their  *)
(* closing punctuation. Texts are lexeme sequences: \item, \begin{itemize} *)
(* and the like are one element each.                                      *)

\* str.rstrip("*") of an environment name
RStripStar(env) == IF env = "itemize*" THEN "itemize" ELSE env

\* The inner loop of mask_command_arguments over the spans of one command.
RECURSIVE MaskSpans(_, _, _, _, _, _)
MaskSpans(txt, chars, command, two_arg_commands, spans, n) ==
    IF n > Len(spans) THEN chars
    ELSE LET span == spans[n]
             first == IF span.argument_start /= None /\ span.argument_end /= None
                      THEN _mask_range(chars, span.argument_start, span.argument_end)
                      ELSE chars
             second ==
                 IF command \in two_arg_commands /\ span.argument_end /= None
                 THEN LET index == _skip_whitespace(txt, span.argument_end + 1)
                      IN  IF index < Len(txt) /\ txt[index + 1] = "{"
                          THEN LET e == find_matching_brace(txt, index)
                               IN  IF e /= None THEN _mask_range(first, index + 1, e)
                                   ELSE first
                          ELSE first
                 ELSE first
         IN  MaskSpans(txt, second, command, two_arg_commands, spans, n + 1)

RECURSIVE MaskCommands(_, _, _, _, _)
MaskCommands(txt, chars, commands, two_arg_commands, c) ==
    IF c > Len(commands) THEN chars
    ELSE MaskCommands(txt,
             MaskSpans(txt, chars, commands[c], two_arg_commands,
                       iter_command_spans(txt, commands[c]), 1),
             commands, two_arg_commands, c + 1)

mask_command_arguments(txt, commands, two_arg_commands) ==
    IF commands = <<>> THEN txt
    ELSE MaskCommands(txt, txt, commands, two_arg_commands, 1)

\* _skip_space
RECURSIVE _skip_space(_, _)
_skip_space(txt, index) ==
    IF index < Len(txt) /\ IsSpace(txt[index + 1])
    THEN _skip_space(txt, index + 1)
    ELSE index

\* _item_content_start; the lexeme \item has length one.
_item_content_start(txt, offset) ==
    LET index == _skip_space(txt, offset + 1)
    IN  IF index < Len(txt) /\ txt[index + 1] = "["
        THEN LET e == find_matching_bracket(txt, index)
             IN  IF e /= None THEN e + 1 ELSE index
        ELSE index

\* The pattern \\item\b matches at 0-based index.
ItemMatchAt(txt, index) ==
    /\ txt[index + 1] = "\\item"
    /\ (index + 1 >= Len(txt) \/ txt[index + 2] \notin WordLexemes)

\* The events of _collect_list_items, <<offset, kind, env>>, after the sort
\* by offset; no two events share an offset.
ListEvents(txt, list_envs) ==
    LET tokens == iter_env_tokens(txt)
        env_events == {<<tokens[k][3], tokens[k][1], tokens[k][2]>> :
                          k \in {j \in 1..Len(tokens) : RStripStar(tokens[j][2]) \in list_envs}}
        item_events == {<<i, "item", "">> : i \in {j \in 0..(Len(txt) - 1) : ItemMatchAt(txt, j)}}
        events == env_events \cup item_events
        order == SortedSeq({e[1] : e \in events})
    IN  [k \in 1..Len(order) |-> CHOOSE e \in events : e[1] = order[k]]

\* "if current_item is not None and current_item.end is None:
\*      current_item.end = offset"; current_item is the last item of the last list.
CloseItem(lists, has_item, offset) ==
    IF has_item /\ lists[Len(lists)][Len(lists[Len(lists)])].end = None
    THEN [lists EXCEPT ![Len(lists)][Len(lists[Len(lists)])].end = offset]
    ELSE lists

\* "while stack and stack[-1] != base_env: stack.pop()"
RECURSIVE PopUntil(_, _)
PopUntil(stack, base_env) ==
    IF stack /= <<>> /\ stack[Len(stack)] /= base_env
    THEN PopUntil(SubSeq(stack, 1, Len(stack) - 1), base_env)
    ELSE stack

\* The stack after an \end{base_env} that is heeded only on top of the stack.
StackAfterEndTopOnly(stack, base_env) ==
    IF stack /= <<>> /\ stack[Len(stack)] = base_env
    THEN SubSeq(stack, 1, Len(stack) - 1)
    ELSE stack

\* The stack after an \end{base_env}.
StackAfterEnd(stack, base_env) ==
    IF stack /= <<>> /\ stack[Len(stack)] = base_env
    THEN SubSeq(stack, 1, Len(stack) - 1)
    ELSE IF \E k \in 1..Len(stack) : stack[k] = base_env
    THEN LET popped == PopUntil(stack, base_env)
         IN  IF popped /= <<>> THEN SubSeq(popped, 1, Len(popped) - 1) ELSE popped
    ELSE stack

\* The event loop of _collect_list_items; st = [stack, lists, open, has_item],
\* open for "current_items is not None", has_item for "current_item is not None".
RECURSIVE CollectItemsLoop(_, _, _, _)
CollectItemsLoop(txt, events, n, st) ==
    IF n > Len(events) THEN st
    ELSE LET offset == events[n][1]
             kind == events[n][2]
             base_env == RStripStar(events[n][3])
         IN  IF kind = "begin"
             THEN LET stack == Append(st.stack, base_env)
                  IN  CollectItemsLoop(txt, events, n + 1,
                          IF Len(stack) = 1
                          THEN [stack |-> stack, lists |-> Append(st.lists, <<>>),
                                open |-> TRUE, has_item |-> FALSE]
                          ELSE [st EXCEPT !.stack = stack])
             ELSE IF kind = "end"
             THEN LET stack == StackAfterEnd(st.stack, base_env)
                  IN  CollectItemsLoop(txt, events, n + 1,
                          IF Len(stack) = 0 /\ st.open
                          THEN [stack |-> stack,
                                lists |-> CloseItem(st.lists, st.has_item, offset),
                                open |-> FALSE, has_item |-> FALSE]
                          ELSE [st EXCEPT !.stack = stack])
             ELSE IF Len(st.stack) /= 1 \/ ~st.open
             THEN CollectItemsLoop(txt, events, n + 1, st)
             ELSE LET closed == CloseItem(st.lists, st.has_item, offset)
                      item == [start |-> offset,
                               content_start |-> _item_content_start(txt, offset),
                               end |-> None]
                  IN  CollectItemsLoop(txt, events, n + 1,
                          [st EXCEPT !.lists = [closed EXCEPT ![Len(closed)] = Append(@, item)],
                                     !.has_item = TRUE])

\* _collect_list_items: the lists, each the sequence of its _ListItem records.
_collect_list_items(txt, list_envs) ==
    LET st == CollectItemsLoop(txt, ListEvents(txt, list_envs), 1,
                  [stack |-> <<>>, lists |-> <<>>, open |-> FALSE, has_item |-> FALSE])
    IN  IF st.open THEN CloseItem(st.lists, st.has_item, Len(txt)) ELSE st.lists

\* _last_nonspace_index
RECURSIVE LastNonspaceLoop(_, _, _)
LastNonspaceLoop(txt, start, index) ==
    IF index >= start /\ IsSpace(txt[index + 1])
    THEN LastNonspaceLoop(txt, start, index - 1)
    ELSE index

_last_nonspace_index(txt, start, end) == LastNonspaceLoop(txt, start, end - 1)

\* str.isdigit() on the digits of the texts
IsDigit(ch) == ch = "1"

\* _is_decimal_point
_is_decimal_point(txt, index, start, end) ==
    IF index <= start \/ index + 1 >= end THEN FALSE
    ELSE IsDigit(txt[index]) /\ IsDigit(txt[index + 2])

\* _sentence_end_positions
RECURSIVE SentenceLoop(_, _, _, _, _)
SentenceLoop(txt, index, start, end, endings) ==
    IF index >= end THEN <<>>
    ELSE LET char == txt[index + 1]
         IN  IF char \in endings /\ ~(char = "." /\ _is_decimal_point(txt, index, start, end))
             THEN <<index>> \o SentenceLoop(txt, index + 1, start, end, endings)
             ELSE SentenceLoop(txt, index + 1, start, end, endings)

_sentence_end_positions(txt, start, end, endings) ==
    SentenceLoop(txt, start, start, end, endings)

\* lists.py _issue
ListIssue(tex_file, offset, rule_id, message) ==
    LET at == IssuePosition(tex_file, offset)
    IN  [rule_id |-> rule_id, message |-> message, path |-> tex_file.path,
         line |-> at.line, col |-> at.col, snippet |-> at.snippet]

\* "expected = self.last_end if index == len(items) - 1 else self.non_last_end",
\* index 0-based.
ExpectedEndFirstItem(rule, index, items) ==
    IF index = 0 THEN rule.last_end ELSE rule.non_last_end

ExpectedEnd(rule, index, items) ==
    IF index = Len(items) - 1 THEN rule.last_end ELSE rule.non_last_end

\* The body of the loop of ListItemPunctuationRule.check over the items of
\* one list, for the item at 0-based index.
ItemIssues(tex_file, masked, rule, items, index) ==
    LET item == items[index + 1]
    IN  IF item.end = None THEN <<>>
        ELSE LET last_index == _last_nonspace_index(masked, item.content_start, item.end)
             IN  IF last_index < item.content_start THEN <<>>
                 ELSE LET last_char == masked[last_index + 1]
                          expected == ExpectedEnd(rule, index, items)
                          sentence_positions ==
                              _sentence_end_positions(masked, item.content_start, item.end,
                                  {rule.sentence_endings[k] : k \in DOMAIN rule.sentence_endings})
                      IN  (IF last_char /= expected
                           THEN <<ListIssue(tex_file, last_index, "LST003",
                                            <<"list item must end with", expected>>)>>
                           ELSE <<>>)
                          \o (IF \E k \in DOMAIN sentence_positions :
                                     sentence_positions[k] < last_index
                              THEN <<ListIssue(tex_file, sentence_positions[1], "LST004",
                                               <<"list item contains multiple sentences">>)>>
                              ELSE <<>>)

\* The text the rule works on.
ListMasked(txt, rule) ==
    mask_command_arguments(mask_comments_and_math(txt), rule.skip_commands,
        {rule.two_arg_commands[k] : k \in DOMAIN rule.two_arg_commands})

\* ListItemPunctuationRule.check
ListItemPunctuationRule_check(files, rule) ==
    LET list_envs == {RStripStar(rule.list_envs[k]) : k \in DOMAIN rule.list_envs}
    IN  ConcatAll([f \in 1..Len(files) |->
            LET tex_file == files[f]
                masked == ListMasked(tex_file.text, rule)
                lists == _collect_list_items(masked, list_envs)
            IN  ConcatAll([l \in 1..Len(lists) |->
                    ConcatAll([i \in 1..Len(lists[l]) |->
                        ItemIssues(tex_file, masked, rule, lists[l], i - 1)])])])

----------------------------------------------------------------------------
(* SpecList: ListItemPunctuationRule.check with the default endings on a   *)
(* one-file Document. The text is either every lexeme sequence over        *)
(* ListAlphabet of length at most MaxListLen, or a list written as a frame *)
(* of ListFrames around at most MaxItems items, each \item followed by a   *)
(* body of ItemBodies (of PlainBodies in a list of MaxItems items); arg    *)
(* keeps how the text was written.                                         *)

MaxListLen == 4

MaxItems == 3

ListAlphabet == {"\\begin{itemize}", "\\end{itemize}", "\\item", "a", ";", ".", SP}

\* What follows \item, and last, the 0-based place in it of the last
\* character that is neither white space nor blanked by the masking (None
\* when the item has no such character after its optional label).
ItemBodies ==
    {[text |-> <<SP, "a", ";">>, last |-> 2],
     [text |-> <<SP, "a", ".">>, last |-> 2],
     [text |-> <<SP, "a", NL>>, last |-> 1],
     [text |-> <<SP, "a", ";", SP, NL>>, last |-> 2],
     [text |-> <<>>, last |-> None],
     [text |-> <<SP, NL>>, last |-> None],
     [text |-> <<SP, "a", ".", SP, "a", ";">>, last |-> 5],
     [text |-> <<SP, "a", ";", SP, "%", ".", NL>>, last |-> 2],
     [text |-> <<SP, "a", ".", "$", "a", ";", "$">>, last |-> 2],
     [text |-> <<SP, "\\ref", "{", "a", ";", "}">>, last |-> 5],
     [text |-> <<SP, "\\href", "{", "a", "}", "{", "a", ".", "}", ";">>, last |-> 9],
     [text |-> <<"[", "a", "]", SP, "a", ";">>, last |-> 5],
     [text |-> <<"[", "a", ";", "]", SP>>, last |-> None],
     [text |-> <<SP, "1", ".", "1", ";">>, last |-> 4],
     [text |-> <<SP, "a", "\\begin{enumerate}", "\\item", SP, "a", ".",
                 "\\end{enumerate}", SP, "a", ";", NL>>, last |-> 10]}

\* What is written around the items: before the list, the opening and the
\* closing of the list and what follows. closed tells that close ends the
\* list; when it does not, the text to the end of the file belongs to the
\* last item and tail is the 0-based place in close of its last visible
\* character (None when close has none). more is the set of 0-based places
\* in close of the last characters of later items that do not end as
\* expected.
ListFrames ==
    {[prefix |-> <<>>, open |-> "\\begin{itemize}", close |-> <<"\\end{itemize}">>,
      closed |-> TRUE, tail |-> None, more |-> {}],
     [prefix |-> <<"\\item", SP, "a", NL>>, open |-> "\\begin{enumerate}",
      close |-> <<"\\end{enumerate}", NL, "a", ".">>,
      closed |-> TRUE, tail |-> None, more |-> {}],
     [prefix |-> <<"\\begin{center}">>, open |-> "\\begin{itemize*}",
      close |-> <<"\\end{itemize}", "\\end{center}">>,
      closed |-> TRUE, tail |-> None, more |-> {}],
     [prefix |-> <<>>, open |-> "\\begin{itemize}", close |-> <<NL>>,
      closed |-> FALSE, tail |-> None, more |-> {}],
     [prefix |-> <<>>, open |-> "\\begin{itemize}", close |-> <<"\\end{enumerate}", "1">>,
      closed |-> FALSE, tail |-> 1, more |-> {}],
     [prefix |-> <<>>, open |-> "\\begin{enumerate}",
      close |-> <<"\\end{enumerate}", "\\begin{itemize}", "\\item", SP, "a", ";",
                  "\\item", SP, "a", ";", "\\end{itemize}">>,
      closed |-> TRUE, tail |-> None, more |-> {9}]}

\* The bodies of at most three elements.
PlainBodies == {body \in ItemBodies : Len(body.text) <= 3}

\* The bodies a list of n items is written with: the longest lists hold
\* plain bodies only.
BodiesOf(n) == IF n < MaxItems THEN ItemBodies ELSE PlainBodies

\* The items one after another, each \item and then its body.
RECURSIVE ItemsText(_)
ItemsText(bodies) ==
    IF bodies = <<>> THEN <<>>
    ELSE <<"\\item">> \o bodies[1].text \o ItemsText(Tail(bodies))

ListText(frame, bodies) ==
    frame.prefix \o <<frame.open>> \o ItemsText(bodies) \o frame.close

\* The default [rules.list_items] and [rules.lists] of config.py, with the
\* skip commands that the texts can hold.
DefaultListRule ==
    [list_envs |-> <<"itemize", "enumerate", "description", "list">>,
     skip_commands |-> <<"ref", "href">>,
     two_arg_commands |-> <<"href", "hyperref">>,
     sentence_endings |-> <<".", "!", "?">>,
     last_end |-> ".",
     non_last_end |-> ";"]

InitList ==
    /\ op = "init"
    /\ result = <<>>
    /\ fs = <<>>
    /\ config = [list_items |-> DefaultListRule]
    /\ \/ /\ arg = [written |-> "free"]
          /\ text \in SeqsUpTo(ListAlphabet, MaxListLen)
       \/ \E frame \in ListFrames, n \in 0..MaxItems :
             \E bodies \in [1..n -> BodiesOf(n)] :
                /\ arg = [written |-> "list", frame |-> frame, bodies |-> bodies]
                /\ text = ListText(frame, bodies)
    /\ document = [files |-> <<TexFile(<<"doc", "main.tex">>, text)>>, base_dir |-> <<"doc">>]

ListItemPunctuationCheck ==
    /\ op = "init"
    /\ op' = "ListItemPunctuationRule.check"
    /\ result' = ListItemPunctuationRule_check(document.files, config.list_items)
    /\ UNCHANGED <<text, arg, fs, config, document>>

NextList == ListItemPunctuationCheck

SpecList == InitList /\ [][NextList]_vars

\* The number of issues of the rule id at 0-based offset of the text.
ListIssuesAt(rule_id, offset) ==
    Cardinality({k \in 1..Len(result) :
        /\ result[k].rule_id = rule_id
        /\ result[k].path = document.files[1].path
        /\ <<result[k].line, result[k].col>> = line_col(document.files[1], offset)})

ListIssueCount(rule_id) == Cardinality({k \in 1..Len(result) : result[k].rule_id = rule_id})

\* The terminator the k-th of n items is to end with.
TerminatorOf(k, n) ==
    IF k = n THEN config.list_items.last_end ELSE config.list_items.non_last_end

\* In a text written as a list: the offset of the k-th \item and of the
\* closing text.
RECURSIVE ItemsLen(_, _)
ItemsLen(bodies, k) == IF k = 0 THEN 0 ELSE ItemsLen(bodies, k - 1) + 1 + Len(bodies[k].text)

ItemOffset(k) == Len(arg.frame.prefix) + 1 + ItemsLen(arg.bodies, k - 1)

CloseOffset == Len(arg.frame.prefix) + 1 + ItemsLen(arg.bodies, Len(arg.bodies))

\* The offset of the last visible character of the k-th item, None when it
\* has none.
LastVisible(k) ==
    IF k = Len(arg.bodies) /\ ~arg.frame.closed /\ arg.frame.tail /= None
    THEN CloseOffset + arg.frame.tail
    ELSE IF arg.bodies[k].last = None THEN None
    ELSE ItemOffset(k) + 1 + arg.bodies[k].last

\* The offsets where a text written as a list is to have an LST003 issue.
WrittenMisended ==
    {LastVisible(k) : k \in {j \in 1..Len(arg.bodies) :
        /\ LastVisible(j) /= None
        /\ text[LastVisible(j) + 1] /= TerminatorOf(j, Len(arg.bodies))}}
    \cup {CloseOffset + m : m \in arg.frame.more}

\* In a text over ListAlphabet: the number of open lists before 0-based i.
RECURSIVE DepthAt(_, _)
DepthAt(txt, i) ==
    IF i = 0 THEN 0
    ELSE LET d == DepthAt(txt, i - 1)
         IN  IF txt[i] = "\\begin{itemize}" THEN d + 1
             ELSE IF txt[i] = "\\end{itemize}" /\ d > 0 THEN d - 1
             ELSE d

\* \item, not run into a letter, directly inside a top-level list.
TopItemAt(i) ==
    /\ text[i + 1] = "\\item"
    /\ (i + 2 <= Len(text) => text[i + 2] /= "a")
    /\ DepthAt(text, i) = 1

\* The top-level list closes at j.
TopCloseAt(j) == text[j + 1] = "\\end{itemize}" /\ DepthAt(text, j) = 1

\* Where the item at i stops: the next item of its list, the end of the list
\* or the end of the text.
ItemStop(i) ==
    LET stops == {j \in (i + 1)..(Len(text) - 1) : TopItemAt(j) \/ TopCloseAt(j)}
    IN  IF stops = {} THEN Len(text) ELSE Min(stops)

IsLastOfList(i) == ItemStop(i) = Len(text) \/ TopCloseAt(ItemStop(i))

\* The offsets of the item's characters that are not white space.
VisibleOf(i) == {p \in (i + 1)..(ItemStop(i) - 1) : ~IsSpace(text[p + 1])}

LastOf(S) == CHOOSE x \in S : \A y \in S : y <= x

\* The offsets where a text over ListAlphabet is to have an LST003 issue.
FreeMisended ==
    {LastOf(VisibleOf(i)) : i \in {j \in 0..(Len(text) - 1) :
        /\ TopItemAt(j)
        /\ VisibleOf(j) /= {}
        /\ text[LastOf(VisibleOf(j)) + 1] /=
               (IF IsLastOfList(j) THEN config.list_items.last_end
                ELSE config.list_items.non_last_end)}}

Misended == IF arg.written = "list" THEN WrittenMisended ELSE FreeMisended

\* C11: ListItemPunctuationRule.check reports exactly one LST003 issue for
\* each top-level list item whose last visible character (not white space,
\* and not blanked as a comment, math or the argument of a skipped command)
\* is not the expected terminator, non_last_end for every item but the last
\* of its list and last_end for the last, at that character, and no other
\* LST003 issue; so none for a list whose items end ";", ..., ";", ".".
C11_ListItemPunctuation ==
    op = "ListItemPunctuationRule.check" =>
        /\ \A offset \in 0..(Len(text) - 1) :
               ListIssuesAt("LST003", offset) = (IF offset \in Misended THEN 1 ELSE 0)
        /\ ListIssueCount("LST003") = Cardinality(Misended)

\* C11 witness: a list of three items "a;", "a." and "a;" has been checked:
\* the second and the third are reported, each at its last character, the
\* first is not.
C11_Witness ==
    /\ op = "ListItemPunctuationRule.check"
    /\ text = <<"\\begin{itemize}", "\\item", SP, "a", ";", "\\item", SP, "a", ".",
                "\\item", SP, "a", ";", "\\end{itemize}">>
    /\ ListIssuesAt("LST003", 4) = 0
    /\ ListIssuesAt("LST003", 8) = 1
    /\ ListIssuesAt("LST003", 12) = 1
    /\ ListIssueCount("LST003") = 2

----------------------------------------------------------------------------
(* cli.py main: the issues of all rules, sorted and printed.               *)

\* The default that path_index.get gives a path that is not a Document file.
missing_index == 9999

\* Document.path_index()[path], or default: the dict keeps the last index of
\* a path.
PathIndexGet(files, path, default) ==
    LET found == {i \in 1..Len(files) : files[i].path = path}
    IN  IF found = {} THEN default
        ELSE (CHOOSE i \in found : \A j \in found : j <= i) - 1

\* The place of a rule identifier in the order of Python strings, for the
\* identifiers of the issues at hand.
RuleIdOrder(rule_id) ==
    CASE rule_id = "IMG001" -> 1
      [] rule_id = "LST003" -> 2
      [] rule_id = "SPELL000" -> 3
      [] OTHER -> 4

\* The sort key of main.
SortKey(files, item) ==
    <<PathIndexGet(files, item.path, missing_index), item.line, item.col,
      RuleIdOrder(item.rule_id)>>

\* Python's order of tuples of integers of one length.
RECURSIVE TupleLess(_, _)
TupleLess(a, b) ==
    IF a = <<>> THEN FALSE
    ELSE IF a[1] /= b[1] THEN a[1] < b[1]
    ELSE TupleLess(Tail(a), Tail(b))

\* list.sort(key=...) is stable: an item goes behind every item whose key
\* is not greater than its own.
RECURSIVE InsertByKey(_, _, _)
InsertByKey(files, sorted, item) ==
    IF sorted = <<>> THEN <<item>>
    ELSE IF TupleLess(SortKey(files, item), SortKey(files, sorted[1]))
    THEN <<item>> \o sorted
    ELSE <<sorted[1]>> \o InsertByKey(files, Tail(sorted), item)

RECURSIVE SortIssues(_, _, _)
SortIssues(files, issues, n) ==
    IF n = 0 THEN <<>>
    ELSE InsertByKey(files, SortIssues(files, issues, n - 1), issues[n])

\* main from the collected issues on: the issues in the order of printing.
main(doc, issues) == SortIssues(doc.files, issues, Len(issues))

----------------------------------------------------------------------------
(* SpecSort: main on a Document of DocSizes files, each empty, with the    *)
(* issues the rules produced, arg, every sequence of at most MaxIssues     *)
(* issues of IssueChoices: issues of the Document's files and of the       *)
(* configuration file, for a large Document one issue of its first file,   *)
(* one of its last file and one of the configuration file.                 *)

MaxIssues == 3

\* The path of the file at 0-based index idx of the Document.
FilePath(idx) == <<"doc", ToString(idx)>>

LargeDocument == missing_index + 2

DocSizes == {1, 2, LargeDocument}

FilesOfSize(n) == [i \in 1..n |-> TexFile(FilePath(i - 1), <<>>)]

IssuePlaces == {<<1, 1>>, <<1, 2>>, <<2, 1>>}

\* The issues a rule can produce for the file at index idx.
FileIssues(idx) ==
    {[rule_id |-> rule_id, message |-> <<>>, path |-> FilePath(idx),
      line |-> at[1], col |-> at[2], snippet |-> <<>>] :
        rule_id \in {"IMG001", "LST003"}, at \in IssuePlaces}

\* The issues of the configuration file, as _config_issue makes them.
ConfigFileIssues ==
    {[rule_id |-> "SPELL000", message |-> message, path |-> ConfigPath,
      line |-> 1, col |-> 1, snippet |-> <<>>] :
        message \in {<<"missing Russian dictionary">>, <<"missing English dictionary">>}}

IssueChoices(n) ==
    IF n = LargeDocument
    THEN {i \in ConfigFileIssues : i.message = <<"missing Russian dictionary">>}
         \cup {i \in FileIssues(0) \cup FileIssues(n - 1) :
                  i.rule_id = "IMG001" /\ i.line = 1 /\ i.col = 1}
    ELSE ConfigFileIssues \cup UNION {FileIssues(idx) : idx \in 0..(n - 1)}

InitSort ==
    /\ op = "init"
    /\ text = <<>>
    /\ result = <<>>
    /\ fs = <<>>
    /\ config = <<>>
    /\ \E n \in DocSizes :
          /\ document = [files |-> FilesOfSize(n), base_dir |-> <<"doc">>]
          /\ arg \in SeqsUpTo(IssueChoices(n), MaxIssues)

Main ==
    /\ op = "init"
    /\ op' = "main"
    /\ result' = main(document, arg)
    /\ UNCHANGED <<text, arg, fs, config, document>>

NextSort == Main

SpecSort == InitSort /\ [][NextSort]_vars

\* The issue is of a file of the Document.
OfDocument(item) == \E i \in 1..Len(document.files) : document.files[i].path = item.path

\* The key of an issue of a Document file: the place of its file in the
\* Document, line, column, rule identifier.
DocumentKey(item) ==
    <<(CHOOSE i \in 1..Len(document.files) : document.files[i].path = item.path) - 1,
      item.line, item.col, RuleIdOrder(item.rule_id)>>

\* C17: the printed issues are the produced ones, those of Document files in
\* non-decreasing order of (place of the file in the Document, line, column,
\* rule identifier), and every issue whose file is not in the Document comes
\* after all issues of Document files.
C17_SortedConfigurationLast ==
    op = "main" =>
        /\ Len(result) = Len(arg)
        /\ \A i, j \in 1..Len(result) :
               (i < j /\ OfDocument(result[i]) /\ OfDocument(result[j]))
                   => ~TupleLess(DocumentKey(result[j]), DocumentKey(result[i]))
        /\ \A i, j \in 1..Len(result) :
               (OfDocument(result[i]) /\ ~OfDocument(result[j])) => i < j

----------------------------------------------------------------------------
(* SpecSpan: iter_command_spans for the command ref on every lexeme text   *)
(* over SpanAlphabet of length at most MaxSpanLen.                         *)

MaxSpanLen == 5

SpanAlphabet == {"\\ref", "a", "[", "]", "{", "}", SP}

InitSpan ==
    /\ op = "init"
    /\ text \in SeqsUpTo(SpanAlphabet, MaxSpanLen)
    /\ arg = "ref"
    /\ result = <<>>
    /\ fs = <<>>
    /\ config = <<>>
    /\ document = <<>>

IterCommandSpans ==
    /\ op = "init"
    /\ op' = "iter_command_spans"
    /\ result' = iter_command_spans(text, arg)
    /\ UNCHANGED <<text, arg, fs, config, document>>

NextSpan == IterCommandSpans

SpecSpan == InitSpan /\ [][NextSpan]_vars

\* The 0-based offsets where \ref stands and no letter runs on from it.
Occurrences ==
    {i \in 0..(Len(text) - 1) :
        text[i + 1] = "\\ref" /\ (i + 2 <= Len(text) => text[i + 2] \notin WordLexemes)}

\* C21: iter_command_spans yields one span per occurrence of the command at
\* a word boundary, in text order; the span's end is the position just after
\* the closing brace of the required argument when one is found, and the
\* position immediately after the command name otherwise.
C21_SpanEnd ==
    op = "iter_command_spans" =>
        /\ Len(result) = Cardinality(Occurrences)
        /\ \A n \in 1..Len(result) :
               /\ result[n].start \in Occurrences
               /\ \A m \in 1..Len(result) : m < n => result[m].start < result[n].start
               /\ IF result[n].argument_end /= None
                  THEN /\ text[result[n].argument_end + 1] = "}"
                       /\ result[n].end = result[n].argument_end + 1
                  ELSE /\ ~result[n].argument.some
                       /\ result[n].end = result[n].start + 1

----------------------------------------------------------------------------
(* SpecBlocks: _collect_env_blocks with the tracked environments figure    *)
(* and center on every lexeme text over BlockAlphabet of length at most    *)
(* MaxBlockLen.                                                            *)

MaxBlockLen == 5

BlockAlphabet ==
    {"\\begin{figure}", "\\end{figure}", "\\begin{center}", "\\end{center}", "a"}

InitBlocks ==
    /\ op = "init"
    /\ text \in SeqsUpTo(BlockAlphabet, MaxBlockLen)
    /\ arg = {"figure", "center"}
    /\ result = <<>>
    /\ fs = <<>>
    /\ config = <<>>
    /\ document = <<>>

CollectEnvBlocks ==
    /\ op = "init"
    /\ op' = "_collect_env_blocks"
    /\ result' = _collect_env_blocks(text, arg)
    /\ UNCHANGED <<text, arg, fs, config, document>>

NextBlocks == CollectEnvBlocks

SpecBlocks == InitBlocks /\ [][NextBlocks]_vars

\* C22: an end marker that does not match the top of the stack closes the
\* nearest lower frame of its name and removes the frames above it, so a
\* frame that was skipped over is never paired with a later end marker: no
\* block begins inside another block and ends after it.
C22_SkippedFrameNeverPaired ==
    op = "_collect_env_blocks" =>
        \A m, n \in 1..Len(result) :
            ~(result[m][2] < result[n][2] /\ result[n][2] < result[m][3]
              /\ result[m][3] < result[n][3])

----------------------------------------------------------------------------
(* rules/lists.py NestedListRule                                           *)

\* The for loop of NestedListRule.check over the tokens from the k-th on:
\* the offsets of the reported begins.
RECURSIVE NestedLoop(_, _, _, _)
NestedLoop(tokens, list_envs, k, stack) ==
    IF k > Len(tokens) THEN <<>>
    ELSE LET kind == tokens[k][1]
             base_env == RStripStar(tokens[k][2])
             offset == tokens[k][3]
         IN  IF base_env \notin list_envs THEN NestedLoop(tokens, list_envs, k + 1, stack)
             ELSE IF kind = "begin"
             THEN (IF stack /= <<>> THEN <<offset>> ELSE <<>>)
                  \o NestedLoop(tokens, list_envs, k + 1, Append(stack, base_env))
             ELSE IF stack /= <<>> /\ stack[Len(stack)] = base_env
             THEN NestedLoop(tokens, list_envs, k + 1, SubSeq(stack, 1, Len(stack) - 1))
             ELSE NestedLoop(tokens, list_envs, k + 1, stack)

\* NestedListRule.check
NestedListRule_check(files, rule) ==
    LET list_envs == {RStripStar(rule.list_envs[k]) : k \in DOMAIN rule.list_envs}
    IN  ConcatAll([f \in 1..Len(files) |->
            LET tex_file == files[f]
                masked == mask_comments_and_math(tex_file.text)
                offsets == NestedLoop(iter_env_tokens(masked), list_envs, 1, <<>>)
            IN  [n \in 1..Len(offsets) |->
                    ListIssue(tex_file, offsets[n], "LST002", <<"nested list detected">>)]])

----------------------------------------------------------------------------
(* SpecNested: NestedListRule.check with the default list environments on  *)
(* a one-file Document whose text is every lexeme text over NestAlphabet   *)
(* of length at most MaxNestLen.                                           *)

MaxNestLen == 5

NestAlphabet ==
    {"\\begin{itemize}", "\\end{itemize}", "\\begin{enumerate}", "\\end{enumerate}", "a"}

InitNested ==
    /\ op = "init"
    /\ text \in SeqsUpTo(NestAlphabet, MaxNestLen)
    /\ arg = <<>>
    /\ result = <<>>
    /\ fs = <<>>
    /\ config = [lists |-> [list_envs |-> DefaultListRule.list_envs]]
    /\ document = [files |-> <<TexFile(<<"doc", "main.tex">>, text)>>, base_dir |-> <<"doc">>]

NestedListCheck ==
    /\ op = "init"
    /\ op' = "NestedListRule.check"
    /\ result' = NestedListRule_check(document.files, config.lists)
    /\ UNCHANGED <<text, arg, fs, config, document>>

NextNested == NestedListCheck

SpecNested == InitNested /\ [][NextNested]_vars

\* The lists open before 0-based offset i when every end marker closes the
\* nearest frame of its name and discards the frames above it.
RECURSIVE OpenLists(_, _)
OpenLists(txt, i) ==
    IF i = 0 THEN <<>>
    ELSE LET stack == OpenLists(txt, i - 1)
             lex == txt[i]
         IN  IF lex \notin EnvLexemes THEN stack
             ELSE IF EnvKind(lex) = "begin" THEN Append(stack, RStripStar(EnvName(lex)))
             ELSE LET same == {k \in 1..Len(stack) : stack[k] = RStripStar(EnvName(lex))}
                  IN  IF same = {} THEN stack
                      ELSE SubSeq(stack, 1, LastOf(same) - 1)

\* C23: a \begin of a list met when every list before it has been closed,
\* explicitly or by the end marker of an enclosing list, is not reported as
\* a nested list.
C23_TopLevelBeginNotNested ==
    op = "NestedListRule.check" =>
        \A i \in 0..(Len(text) - 1) :
            (text[i + 1] \in {"\\begin{itemize}", "\\begin{enumerate}"}
             /\ OpenLists(text, i) = <<>>)
                => ListIssuesAt("LST002", i) = 0

----------------------------------------------------------------------------
(* SpecItems: _collect_list_items with the default list environments on    *)
(* every lexeme text over ItemAlphabet of length at most MaxItemLen and on *)
(* the longer ItemLongTexts.                                               *)

MaxItemLen == 5

ItemAlphabet ==
    {"\\begin{itemize}", "\\end{itemize}", "\\begin{enumerate}", "\\end{enumerate}",
     "\\item", "a", "[", "]", SP}

ItemLongTexts ==
    {<<"\\begin{itemize}", "\\item", SP, "a", "\\begin{enumerate}", "\\item", SP, "a",
       "\\end{enumerate}", "\\item", SP, "a", "\\end{itemize}">>,
     <<"\\begin{itemize}", "\\item", "[", "a", "]", SP, "a", "\\item", SP, "[", "a",
       "\\end{itemize}", "]">>,
     <<"\\begin{itemize}", "\\item", "[", "a", "\\item", "]", "a", "\\end{itemize}", "\\item">>,
     <<"\\begin{itemize}", "\\item", "\\begin{enumerate}", "\\item", "\\end{itemize}",
       "\\item", "\\begin{enumerate}", "\\item", SP, "a">>,
     <<"\\item", "\\begin{itemize*}", "\\item", SP, "\\end{enumerate}", "\\item",
       "\\end{itemize}", "\\begin{enumerate}", "\\item", SP, "a", "\\item", SP, "a">>}

InitItems ==
    /\ op = "init"
    /\ text \in SeqsUpTo(ItemAlphabet, MaxItemLen) \cup ItemLongTexts
    /\ arg = {"itemize", "enumerate", "description", "list"}
    /\ result = <<>>
    /\ fs = <<>>
    /\ config = <<>>
    /\ document = <<>>

CollectListItems ==
    /\ op = "init"
    /\ op' = "_collect_list_items"
    /\ result' = _collect_list_items(text, arg)
    /\ UNCHANGED <<text, arg, fs, config, document>>

NextItems == CollectListItems

SpecItems == InitItems /\ [][NextItems]_vars

\* The 0-based offsets of the \item markers met while exactly one list is
\* open, and of the end markers that close a top-level list.
ItemMarkers ==
    {i \in 0..(Len(text) - 1) :
        /\ text[i + 1] = "\\item"
        /\ (i + 2 <= Len(text) => text[i + 2] \notin WordLexemes)
        /\ Len(OpenLists(text, i)) = 1}

ListCloses ==
    {j \in 0..(Len(text) - 1) : OpenLists(text, j) /= <<>> /\ OpenLists(text, j + 1) = <<>>}

\* Where the item that starts at i is to end.
ItemEndOf(i) ==
    LET stops == {j \in ItemMarkers \cup ListCloses : j > i}
    IN  IF stops = {} THEN Len(text) ELSE Min(stops)

\* All recorded items, list after list.
AllItems == ConcatAll(result)

\* The structure of the recorded items without the place of content_start.
ItemsWellFormed ==
    /\ Len(AllItems) = Cardinality(ItemMarkers)
    /\ \A n \in 1..Len(AllItems) :
           /\ AllItems[n].start \in ItemMarkers
           /\ AllItems[n].end = ItemEndOf(AllItems[n].start)
           /\ AllItems[n].start < AllItems[n].end
           /\ AllItems[n].start <= AllItems[n].content_start
    /\ \A l \in 1..Len(result) : \A n \in 1..(Len(result[l]) - 1) :
           /\ result[l][n].start < result[l][n + 1].start
           /\ result[l][n].end = result[l][n + 1].start
    /\ \A i \in 0..(Len(text) - 1) :
           (text[i + 1] = "\\item" /\ Len(OpenLists(text, i)) > 1)
               => \A n \in 1..Len(AllItems) : AllItems[n].start /= i

\* C24 as stated: the items are those of the \item markers met while exactly
\* one list is open, each ends at the next such marker or at the end marker
\* that closes the list (at the end of the text if there is none), the items
\* of a list follow one another without overlap, and start <= content_start
\* <= end for every item.
C24_AsStated ==
    op = "_collect_list_items" =>
        /\ ItemsWellFormed
        /\ \A n \in 1..Len(AllItems) : AllItems[n].content_start <= AllItems[n].end

\* The item at start has an optional label whose closing bracket stands at
\* or after stop.
LabelReaches(start, stop) ==
    LET index == _skip_space(text, start + 1)
    IN  /\ index < Len(text)
        /\ text[index + 1] = "["
        /\ find_matching_bracket(text, index) /= None
        /\ find_matching_bracket(text, index) >= stop

\* C24 amended: as stated, but content_start <= end is claimed only for an
\* item whose optional label does not reach its end; an item whose label's
\* closing bracket stands at or after the item's end has content_start just
\* after that bracket, beyond end.
C24_ItemSpans ==
    op = "_collect_list_items" =>
        /\ ItemsWellFormed
        /\ \A n \in 1..Len(AllItems) :
               IF LabelReaches(AllItems[n].start, AllItems[n].end)
               THEN AllItems[n].content_start > AllItems[n].end
               ELSE AllItems[n].content_start <= AllItems[n].end

\* C24 witness: a list with an item that holds a nested list and a second
\* item has been collected: two items, the nested \item in the span of the
\* first.
C24_Witness ==
    /\ op = "_collect_list_items"
    /\ text = <<"\\begin{itemize}", "\\item", SP, "a", "\\begin{enumerate}", "\\item", SP, "a",
                "\\end{enumerate}", "\\item", SP, "a", "\\end{itemize}">>
    /\ result = <<<<[start |-> 1, content_start |-> 3, end |-> 9],
                    [start |-> 9, content_start |-> 11, end |-> 12]>>>>

----------------------------------------------------------------------------
(* SpecArgs: WordScanner.iter_words with the scanner ArgScanner on a text  *)
(* that holds one command with its arguments:                              *)
(*   prefix \name opt sep {first} sep {second} tail                        *)
(* alone or as the argument of the unconfigured command \u; arg keeps the  *)
(* pieces. The commands: s is skipped with one argument, t with two, k is  *)
(* skipped but kept, c is a second-argument command, u is not configured.  *)

ArgScanner ==
    WordScanner({}, {<<"s">>, <<"t">>, <<"k">>}, {<<"k">>}, {<<"t">>}, {<<"c">>})

ArgNames == {<<"s">>, <<"t">>, <<"k">>, <<"c">>, <<"u">>}

ArgOptionals == {<<>>, <<"[", "x", "]">>, <<SP, "[", "x", SP, "x", "]">>}

\* What stands between the braces of an argument, and words, the 0-based
\* places in it of the words that a scan of it yields.
ArgBodies ==
    {[text |-> <<"x">>, words |-> {0}],
     [text |-> <<>>, words |-> {}],
     [text |-> <<"x", SP, "{", "x", "}">>, words |-> {0, 3}],
     [text |-> <<BS, "s", "{", "x", "}", "x">>, words |-> {5}]}

MaxArgs == 2

ArgSeparators == {<<>>, <<SP>>}

ArgPrefixes == {<<>>, <<"x", SP>>}

ArgTails == {<<>>, <<SP, "x">>}

\* The braced arguments one after another, each after the separator.
RECURSIVE BracedText(_, _)
BracedText(bodies, sep) ==
    IF bodies = <<>> THEN <<>>
    ELSE sep \o <<"{">> \o bodies[1].text \o <<"}">> \o BracedText(Tail(bodies), sep)

CommandText(a) ==
    LET command == <<BS>> \o a.name \o a.optional \o BracedText(a.bodies, a.sep) \o a.tail
    IN  a.prefix \o (IF a.wrapped THEN <<BS, "u", "{">> \o command \o <<"}">> ELSE command)

InitArgs ==
    /\ op = "init"
    /\ result = <<>>
    /\ fs = <<>>
    /\ document = <<>>
    /\ config = ArgScanner
    /\ \E name \in ArgNames, optional \in ArgOptionals, n \in 0..MaxArgs,
          sep \in ArgSeparators, prefix \in ArgPrefixes, tail \in ArgTails,
          wrapped \in BOOLEAN :
          \E bodies \in [1..n -> ArgBodies] :
             arg = [name |-> name, optional |-> optional, bodies |-> bodies, sep |-> sep,
                    prefix |-> prefix, tail |-> tail, wrapped |-> wrapped]
    /\ text = CommandText(arg)

IterWords ==
    /\ op = "init"
    /\ op' = "iter_words"
    /\ result' = iter_words(config, text)
    /\ UNCHANGED <<text, arg, fs, config, document>>

NextArgs == IterWords

SpecArgs == InitArgs /\ [][NextArgs]_vars

\* The 0-based offsets of the yielded words.
YieldedAt == {result[k][2] : k \in 1..Len(result)}

\* Offsets in a text written by CommandText: of the backslash of the
\* command, of the opening brace of its k-th braced argument, of its tail.
CommandOffset == Len(arg.prefix) + (IF arg.wrapped THEN 3 ELSE 0)

RECURSIVE BracedLen(_, _)
BracedLen(bodies, k) ==
    IF k = 0 THEN 0
    ELSE BracedLen(bodies, k - 1) + Len(arg.sep) + Len(bodies[k].text) + 2

BraceOffset(k) ==
    CommandOffset + 1 + Len(arg.name) + Len(arg.optional)
        + BracedLen(arg.bodies, k - 1) + Len(arg.sep)

TailOffset ==
    CommandOffset + 1 + Len(arg.name) + Len(arg.optional)
        + BracedLen(arg.bodies, Len(arg.bodies))

\* The offsets inside the optional argument, and between the braces of the
\* k-th braced argument.
InOptional ==
    {p \in 0..(Len(text) - 1) :
        /\ p >= CommandOffset + 1 + Len(arg.name)
        /\ p < CommandOffset + 1 + Len(arg.name) + Len(arg.optional)}

InBraced(k) ==
    {p \in 0..(Len(text) - 1) :
        p > BraceOffset(k) /\ p <= BraceOffset(k) + Len(arg.bodies[k].text)}

\* The offsets of the words that a scan of the k-th braced argument yields.
WordsOfBraced(k) == {BraceOffset(k) + 1 + w : w \in arg.bodies[k].words}

IsSkipped == arg.name \in config.skip_commands /\ arg.name \notin config.keep_commands

\* C25: for a command in skip_commands and not in keep_commands no word is
\* yielded from its optional argument and its first braced argument, nor
\* from its second braced argument when the command is in skip_two_args;
\* the words of the second braced argument of a skipped command that is not
\* in skip_two_args are yielded.
C25_SkippedArguments ==
    (op = "iter_words" /\ IsSkipped) =>
        /\ YieldedAt \cap InOptional = {}
        /\ Len(arg.bodies) >= 1 => YieldedAt \cap InBraced(1) = {}
        /\ Len(arg.bodies) >= 2 =>
               IF arg.name \in config.skip_two_args
               THEN YieldedAt \cap InBraced(2) = {}
               ELSE YieldedAt \cap InBraced(2) = WordsOfBraced(2)

\* C25 witness: \s{x}{x} x scanned; the word of the first argument is not
\* yielded, the word of the second argument and the word after it are.
C25_Witness ==
    /\ op = "iter_words"
    /\ text = <<BS, "s", "{", "x", "}", "{", "x", "}", SP, "x">>
    /\ YieldedAt = {6, 9}

\* C26: for a command in second_arg_commands that is not skipped no word is
\* yielded from its optional argument and its first braced argument, the
\* words of its second braced argument are those a scan of it yields, and
\* with no second braced argument no word of the command is yielded.
C26_SecondArgument ==
    (op = "iter_words" /\ arg.name \in config.second_arg_commands /\ ~IsSkipped) =>
        /\ YieldedAt \cap InOptional = {}
        /\ Len(arg.bodies) >= 1 => YieldedAt \cap InBraced(1) = {}
        /\ Len(arg.bodies) >= 2 => YieldedAt \cap InBraced(2) = WordsOfBraced(2)
        /\ Len(arg.bodies) < 2 =>
               YieldedAt \cap {p \in 0..(Len(text) - 1) : p >= CommandOffset /\ p < TailOffset}
                   = {}

\* C26 witness: \c[x]{x}{x {x}} scanned; only the two words of the second
\* argument are yielded.
C26_Witness ==
    /\ op = "iter_words"
    /\ text = <<BS, "c", "[", "x", "]", "{", "x", "}", "{", "x", SP, "{", "x", "}", "}">>
    /\ YieldedAt = {9, 12}

----------------------------------------------------------------------------
(* SpecEnv: WordScanner.iter_words with the ignored environment v on a     *)
(* text written as a sequence of parts, arg, every sequence of at most     *)
(* MaxEnvParts parts and the longer EnvLongParts. The parts: \begin{v},    *)
(* \begin{ v }, \end{v}, \end {v}, \begin{w} of an environment that is not ignored, the *)
(* word x with a space, \u{ opening the argument of an unconfigured        *)
(* command, and a closing brace.                                           *)

EnvScanner == WordScanner({<<"v">>}, {}, {}, {}, {})

MaxEnvParts == 4

EnvPartKinds == {"begin", "begin_spaced", "end", "end_spaced", "begin_other", "x", "open", "close"}

EnvPartText(kind) ==
    CASE kind = "begin" -> <<BS>> \o BeginName \o <<"{", "v", "}">>
      [] kind = "begin_spaced" -> <<BS>> \o BeginName \o <<"{", SP, "v", SP, "}">>
      [] kind = "end" -> <<BS>> \o EndName \o <<"{", "v", "}">>
      [] kind = "end_spaced" -> <<BS>> \o EndName \o <<SP, "{", "v", "}">>
      [] kind = "begin_other" -> <<BS>> \o BeginName \o <<"{", "w", "}">>
      [] kind = "x" -> <<"x", SP>>
      [] kind = "open" -> <<BS, "u", "{">>
      [] OTHER -> <<"}">>

EnvLongParts ==
    {<<"x", "begin", "x", "begin", "x", "end", "x", "end_spaced", "x">>,
     <<"open", "begin", "x", "end", "x", "close", "x", "begin", "x">>,
     <<"open", "x", "begin", "x", "close", "x", "end", "x">>,
     <<"begin", "open", "end", "begin", "close", "x", "end", "x">>,
     <<"open", "open", "begin", "close", "x", "close", "x", "end", "x">>,
     <<"begin_spaced", "x", "begin_spaced", "x", "end", "x", "end", "x">>}

RECURSIVE PartsText(_)
PartsText(parts) ==
    IF parts = <<>> THEN <<>> ELSE EnvPartText(parts[1]) \o PartsText(Tail(parts))

InitEnv ==
    /\ op = "init"
    /\ result = <<>>
    /\ fs = <<>>
    /\ document = <<>>
    /\ config = EnvScanner
    /\ arg \in SeqsUpTo(EnvPartKinds, MaxEnvParts) \cup EnvLongParts
    /\ text = PartsText(arg)

IterWordsEnv ==
    /\ op = "init"
    /\ op' = "iter_words"
    /\ result' = iter_words(config, text)
    /\ UNCHANGED <<text, arg, fs, config, document>>

NextEnv == IterWordsEnv

SpecEnv == InitEnv /\ [][NextEnv]_vars

\* The 0-based offset of the k-th part; of the end of the text for k beyond
\* the parts.
PartOffset(k) == Len(PartsText(SubSeq(arg, 1, k - 1)))

\* The part just after the \end{v} that balances a \begin{v} with depth
\* begins open, looking from part k on; beyond the parts if there is none.
\* The pairs counted are those written \begin{v} and \end{v} with the name
\* alone in the braces.
RECURSIVE AfterBalancingEnd(_, _)
AfterBalancingEnd(k, depth) ==
    IF k > Len(arg) THEN Len(arg) + 1
    ELSE IF arg[k] = "begin" THEN AfterBalancingEnd(k + 1, depth + 1)
    ELSE IF arg[k] \in {"end", "end_spaced"}
    THEN IF depth = 1 THEN k + 1 ELSE AfterBalancingEnd(k + 1, depth - 1)
    ELSE AfterBalancingEnd(k + 1, depth)

\* The closing brace that matches the brace of the \u{ at part k; 0 if none.
RECURSIVE MatchingClose(_, _)
MatchingClose(k, depth) ==
    IF k > Len(arg) THEN 0
    ELSE IF arg[k] = "open" THEN MatchingClose(k + 1, depth + 1)
    ELSE IF arg[k] = "close"
    THEN IF depth = 1 THEN k ELSE MatchingClose(k + 1, depth - 1)
    ELSE MatchingClose(k + 1, depth)

\* The parts the scan visits from part k on in a range that ends before
\* part limit, each as <<part, limit>>: an ignored environment is passed
\* over to just after its balancing end, the argument of \u is a range of
\* its own, and after it the scan goes on just after its closing brace.
RECURSIVE Visited(_, _)
Visited(k, limit) ==
    IF k >= limit THEN {}
    ELSE IF arg[k] \in {"begin", "begin_spaced"}
    THEN {<<k, limit>>} \cup Visited(AfterBalancingEnd(k + 1, 1), limit)
    ELSE IF arg[k] = "open" /\ MatchingClose(k + 1, 1) /= 0
    THEN {<<k, limit>>} \cup Visited(k + 1, MatchingClose(k + 1, 1))
             \cup Visited(MatchingClose(k + 1, 1) + 1, limit)
    ELSE {<<k, limit>>} \cup Visited(k + 1, limit)

AllVisited == Visited(1, Len(arg) + 1)

\* The \begin{v} that the scan meets, each with the limit of its range.
MetBegins == {v \in AllVisited : arg[v[1]] \in {"begin", "begin_spaced"}}

\* No word is yielded from part a up to, not including, part b.
NoWordIn(a, b) == \A p \in YieldedAt : p < PartOffset(a) \/ p >= PartOffset(b)

\* C27 as stated: from a \begin{v} that the scanner meets, no word is
\* yielded until just after the \end{v} that balances it, nested pairs
\* counted, and none to the end of the text when no \end{v} balances it.
C27_AsStated ==
    op = "iter_words" =>
        \A v \in MetBegins : NoWordIn(v[1], AfterBalancingEnd(v[1] + 1, 1))

\* C27 amended: the same, the nested pairs counted being those written with
\* the name alone in the braces, for a \begin{v} met outside every scanned
\* command argument; for one met inside a scanned argument no word is yielded up to
\* just after the balancing \end{v} or up to the closing brace of that
\* argument, whichever comes first, and the scan goes on from there. The
\* yielded words are the words visited in this way.
C27_IgnoredEnvironment ==
    op = "iter_words" =>
        /\ \A v \in MetBegins :
               LET after == AfterBalancingEnd(v[1] + 1, 1)
               IN  NoWordIn(v[1], IF after <= v[2] THEN after ELSE v[2] + 1)
        /\ YieldedAt = {PartOffset(v[1]) : v \in {w \in AllVisited : arg[w[1]] = "x"}}

\* C27 witness: x \begin{v} x \begin{v} x \end{v} x \end {v} x scanned: the
\* first and the last x are yielded, the inner \end{v} does not end the skip.
C27_Witness ==
    /\ op = "iter_words"
    /\ arg = <<"x", "begin", "x", "begin", "x", "end", "x", "end_spaced", "x">>
    /\ YieldedAt = {0, PartOffset(9)}

----------------------------------------------------------------------------
(* SpecScan: WordScanner.iter_words of a scanner with nothing configured   *)
(* on every text over ScanAlphabet of length at most MaxScanLen, beside    *)
(* mask_comments_and_math of the same text.                                *)

PlainScanner == WordScanner({}, {}, {}, {}, {})

MaxScanLen == 5

ScanAlphabet == {"x", "%", "$", BS, NL, SP}

InitScan ==
    /\ op = "init"
    /\ result = <<>>
    /\ fs = <<>>
    /\ document = <<>>
    /\ arg = None
    /\ config = PlainScanner
    /\ text \in SeqsUpTo(ScanAlphabet, MaxScanLen)

IterWordsScan ==
    /\ op = "init"
    /\ op' = "iter_words"
    /\ result' = iter_words(config, text)
    /\ UNCHANGED <<text, arg, fs, config, document>>

NextScan == IterWordsScan

SpecScan == InitScan /\ [][NextScan]_vars

\* The 0-based positions that mask_comments_and_math blanks.
BlankedPositions ==
    {p \in 0..(Len(text) - 1) : mask_comments_and_math(text)[p + 1] /= text[p + 1]}

\* C28: no yielded word overlaps a position that mask_comments_and_math
\* blanks, a % inside a math region and a $ inside a comment included.
C28_OutsideCommentsAndMath ==
    op = "iter_words" =>
        \A k \in 1..Len(result) :
            \A p \in result[k][2]..(result[k][2] + Len(result[k][1]) - 1) :
                p \notin BlankedPositions

----------------------------------------------------------------------------
(* SpecLoop: WordScanner.iter_words(text, start, end) run one iteration of *)
(* the while loop of _scan_range at a time. arg is the stack of the        *)
(* generator frames, the innermost last, each with its cursor index and    *)
(* its end; result collects the yielded words. Every text over             *)
(* LoopAlphabet of length at most MaxLoopLen and the longer LoopLongTexts  *)
(* is scanned from every start and to every end with                       *)
(* 0 <= start <= end <= len(text).                                         *)

MaxLoopLen == 4

LoopAlphabet == {"x", "%", "$", BS, "{", "}"}

LoopLongTexts ==
    {<<BS, "x", "{", "x", "}", "x">>,
     <<BS, "x", "{", BS, "%", "}">>,
     <<"$", "x", "$", BS, "$", "x">>}

NoFrame == <<>>

ScanFrame(index, end) == [index |-> index, end |-> end]

\* One iteration of the loop: the cursor after it, the words it yields and
\* the range it descends into, if any, before the loop goes on.
Iteration(index, words, sub) == [index |-> index, words |-> words, sub |-> sub]

\* The tail "if index < end and text[index] == '{'" of the command branch.
StepBraced(txt, index, end) ==
    IF index < end /\ txt[index + 1] = "{"
    THEN LET arg_end == find_matching_brace(txt, index)
         IN  IF arg_end = None THEN Iteration(index + 1, <<>>, NoFrame)
             ELSE Iteration(arg_end + 1, <<>>, <<ScanFrame(index + 1, arg_end)>>)
    ELSE Iteration(index, <<>>, NoFrame)

\* The branch "if char == backslash" of the loop body.
StepCommand(self, txt, index0, end) ==
    LET parsed == _scan_parse_command(txt, index0)
        cmd    == parsed[1]
        index  == parsed[2]
    IN  IF cmd = <<>> THEN Iteration(index, <<>>, NoFrame)
        ELSE IF cmd \in {BeginName, EndName}
        THEN Iteration(_scan_skip_command_args(txt, index, cmd, self.skip_two_args),
                       <<>>, NoFrame)
        ELSE IF cmd \in self.skip_commands /\ cmd \notin self.keep_commands
        THEN Iteration(_scan_skip_command_args(txt, index, cmd, self.skip_two_args),
                       <<>>, NoFrame)
        ELSE IF cmd \in self.second_arg_commands
        THEN StepBraced(txt, _scan_skip_first_braced(txt, _scan_skip_optional(txt, index)), end)
        ELSE StepBraced(txt, _scan_skip_optional(txt, index), end)

\* The body of "while index < end" of WordScanner._scan_range.
ScanStep(self, txt, index, end) ==
    LET char == txt[index + 1]
    IN  IF char = "%" /\ ~is_escaped(txt, index)
        THEN Iteration(_scan_skip_comment(txt, index), <<>>, NoFrame)
        ELSE IF _scan_is_math_start(txt, index)
        THEN Iteration(_scan_skip_math(txt, index), <<>>, NoFrame)
        ELSE LET next_index == IF StartsWith(txt, <<BS>> \o BeginName, index)
                               THEN _handle_begin(self, txt, index)
                               ELSE index
             IN  IF next_index /= index THEN Iteration(next_index, <<>>, NoFrame)
                 ELSE IF char = BS THEN StepCommand(self, txt, index, end)
                 ELSE LET next_special == _scan_next_special(txt, index, end)
                      IN  Iteration(next_special, WordsIn(txt, index, next_special), NoFrame)

InitLoop ==
    /\ op = "scan"
    /\ result = <<>>
    /\ fs = <<>>
    /\ document = <<>>
    /\ config = PlainScanner
    /\ text \in SeqsUpTo(LoopAlphabet, MaxLoopLen) \cup LoopLongTexts
    /\ \E start \in 0..Len(text) : \E end \in start..Len(text) :
           arg = <<ScanFrame(start, end)>>

\* One iteration of the loop of the innermost frame.
ScanIteration ==
    /\ op = "scan"
    /\ arg /= <<>>
    /\ arg[Len(arg)].index < arg[Len(arg)].end
    /\ LET frame == arg[Len(arg)]
           step  == ScanStep(config, text, frame.index, frame.end)
       IN  /\ arg' = SubSeq(arg, 1, Len(arg) - 1)
                       \o <<ScanFrame(step.index, frame.end)>> \o step.sub
           /\ result' = result \o step.words
    /\ UNCHANGED <<text, op, fs, config, document>>

\* The loop of the innermost frame is over: the generator returns to the
\* frame that called it, and iter_words returns when none is left.
ScanReturn ==
    /\ op = "scan"
    /\ arg /= <<>>
    /\ arg[Len(arg)].index >= arg[Len(arg)].end
    /\ arg' = SubSeq(arg, 1, Len(arg) - 1)
    /\ op' = IF Len(arg) = 1 THEN "returned" ELSE "scan"
    /\ UNCHANGED <<text, result, fs, config, document>>

NextLoop == ScanIteration \/ ScanReturn

SpecLoop == InitLoop /\ [][NextLoop]_vars

\* The interpreter runs the generator whenever it can take a step. An
\* iteration that leaves the cursor where it is changes no variable, so a
\* loop that repeats it for ever shows as a behaviour that stays in one
\* state with op = "scan".
SpecLoopFair == SpecLoop /\ WF_vars(NextLoop)

\* C29: iter_words(text, start, end) terminates for every text and every
\* 0 <= start <= end <= len(text), every iteration of the loop moving the
\* cursor forward, also from a % or $ escaped by a preceding backslash.
C29_IterWordsTerminates == <>(op = "returned")

----------------------------------------------------------------------------
(* The forms of "piksel" under SpecSpell.                                  *)

\* C30: a word whose lower-case form is one of PIXEL_ALLOWED_FORMS gets no
\* issue: no allowed form is reported as SPELL002, nor as anything else.
C30_AllowedPixelFormAccepted ==
    op = "SpellcheckRule.check" =>
        \A part \in Parts :
            casefold(part[1]) \in PIXEL_ALLOWED_FORMS
            => \A id \in {"SPELL001", "SPELL002", "SPELL003"} :
                  SpellIssuesAt(id, part[2]) = 0

=============================================================================
